---------------------------- MODULE Spec2Model ----------------------------
(***************************************************************************)
(* ImageProcLib: the pixel filters of src/src/img_ops.c (Gaussian blur,    *)
(* luma reduction, Sobel edge detection) and src/src/imageproc_A.c (median *)
(* filter, grayscale), modelled as a state machine over one Image          *)
(* structure and the heap blocks the filters allocate and free.            *)
(*                                                                         *)
(* The filters compute in IEEE-754 binary32 (C float).  A float is the     *)
(* record [k, s, m, e]: k is "fin", "inf" or "nan", s the sign bit, and a  *)
(* finite value is (-1)^s * m * 2^e with m < 2^24 and e >= EMin; m >= 2^23 *)
(* unless e = EMin (subnormals and zero).  Every arithmetic operator       *)
(* rounds to nearest, ties to even, as the hardware does.  Intermediate    *)
(* integers stay below 2^31, so 48-bit products are kept as two 24-bit     *)
(* limbs (hi, lo).                                                         *)
(***************************************************************************)
EXTENDS Integers, Sequences, FiniteSets, TLC

---------------------------------------------------------------------------
(* binary32 arithmetic                                                     *)

\* exponent of the least significant bit of a subnormal: 2^-149
EMin == -149
\* exponent of the least significant bit of the largest finite floats
EMax == 104
\* 2^23, the hidden bit of a normalised 24-bit significand
Hidden == 8388608
\* 2^24, one limb
Limb == 16777216

Max(a, b) == IF a >= b THEN a ELSE b
Min(a, b) == IF a <= b THEN a ELSE b

RECURSIVE BitLen(_)
BitLen(x) == IF x = 0 THEN 0 ELSE 1 + BitLen(x \div 2)

FZero(s) == [k |-> "fin", s |-> s, m |-> 0, e |-> EMin]
FInf(s) == [k |-> "inf", s |-> s, m |-> 0, e |-> 0]
FNaN == [k |-> "nan", s |-> 0, m |-> 0, e |-> 0]
FIsZero(a) == a.k = "fin" /\ a.m = 0

\* q * 2^e with q <= 2^24 already rounded: renormalise a carry out of the
\* significand and overflow to infinity
FPack(s, q, e) ==
    LET q1 == IF q = Limb THEN Hidden ELSE q
        e1 == IF q = Limb THEN e + 1 ELSE e
    IN  IF q1 = 0 THEN FZero(s)
        ELSE IF e1 > EMax THEN FInf(s)
        ELSE [k |-> "fin", s |-> s, m |-> q1, e |-> e1]

\* -1, 0, 1: the remainder (rhi * 2^24 + lo) of a right shift by sh >= 24
\* against half of the last kept bit, 2^(sh-1)
HalfCmpWide(rhi, lo, t) ==
    IF t = 0
    THEN (IF lo > Hidden THEN 1 ELSE IF lo = Hidden THEN 0 ELSE -1)
    ELSE LET h == 2 ^ (t - 1)
         IN  IF rhi > h \/ (rhi = h /\ lo > 0) THEN 1
             ELSE IF rhi = h /\ lo = 0 THEN 0 ELSE -1

RoundUp(q, cmp) == IF cmp > 0 \/ (cmp = 0 /\ q % 2 = 1) THEN q + 1 ELSE q

\* the float nearest to (hi * 2^24 + lo) * 2^E, ties to even
RoundPack(s, hi, lo, E) ==
    IF hi = 0 /\ lo = 0 THEN FZero(s)
    ELSE
    LET nb == IF hi > 0 THEN 24 + BitLen(hi) ELSE BitLen(lo)
        sh == Max(nb - 24, EMin - E)
    IN  IF sh <= 0 THEN FPack(s, lo * (2 ^ (-sh)), E + sh)
        ELSE IF sh > nb THEN FZero(s)
        ELSE IF sh >= 24
        THEN LET t == sh - 24
                 q == hi \div (2 ^ t)
                 rhi == hi % (2 ^ t)
             IN  FPack(s, RoundUp(q, HalfCmpWide(rhi, lo, t)), E + sh)
        ELSE LET q == hi * (2 ^ (24 - sh)) + (lo \div (2 ^ sh))
                 rem == lo % (2 ^ sh)
                 h == 2 ^ (sh - 1)
                 cmp == IF rem > h THEN 1 ELSE IF rem = h THEN 0 ELSE -1
             IN  FPack(s, RoundUp(q, cmp), E + sh)

\* (float)n for an int n with |n| < 2^24 (exact)
FromInt(n) == IF n < 0 THEN RoundPack(1, 0, -n, 0) ELSE RoundPack(0, 0, n, 0)

FNeg(a) == IF a.k = "nan" THEN a ELSE [a EXCEPT !.s = 1 - a.s]

\* a * b
FMul(a, b) ==
    LET s == (a.s + b.s) % 2
    IN  IF a.k = "nan" \/ b.k = "nan" THEN FNaN
        ELSE IF a.k = "inf" \/ b.k = "inf"
        THEN (IF FIsZero(a) \/ FIsZero(b) THEN FNaN ELSE FInf(s))
        ELSE
        LET a1 == a.m \div 4096
            a0 == a.m % 4096
            b1 == b.m \div 4096
            b0 == b.m % 4096
            p0 == a0 * b0
            p1 == a1 * b0 + a0 * b1
            p2 == a1 * b1
            l == p0 + (p1 % 4096) * 4096
            lo == l % Limb
            hi == p2 + (p1 \div 4096) + (l \div Limb)
        IN  RoundPack(s, hi, lo, a.e + b.e)

\* the magnitude x.m * 2^d as limbs, 0 <= d <= 25
ShiftedHi(m, d) == IF d >= 24 THEN m * (2 ^ (d - 24)) ELSE m \div (2 ^ (24 - d))
ShiftedLo(m, d) == IF d >= 24 THEN 0 ELSE (m % (2 ^ (24 - d))) * (2 ^ d)

\* |x| >= |y| for finite floats in canonical form
MagGe(x, y) == x.e > y.e \/ (x.e = y.e /\ x.m >= y.m)

\* x + y for finite x, y with |x| >= |y|
FAddOrdered(x, y) ==
    LET d == x.e - y.e
    IN  IF y.m = 0 THEN (IF x.m = 0 /\ x.s # y.s THEN FZero(0) ELSE x)
        ELSE IF d > 25 THEN x
        ELSE
        LET xh == ShiftedHi(x.m, d)
            xl == ShiftedLo(x.m, d)
        IN  IF x.s = y.s
            THEN LET l == xl + y.m
                 IN  RoundPack(x.s, xh + (l \div Limb), l % Limb, y.e)
            ELSE LET borrow == IF xl < y.m THEN 1 ELSE 0
                     l == xl + borrow * Limb - y.m
                     h == xh - borrow
                 IN  IF h = 0 /\ l = 0 THEN FZero(0)
                     ELSE RoundPack(x.s, h, l, y.e)

\* a + b
FAdd(a, b) ==
    IF a.k = "nan" \/ b.k = "nan" THEN FNaN
    ELSE IF a.k = "inf"
    THEN (IF b.k = "inf" /\ a.s # b.s THEN FNaN ELSE a)
    ELSE IF b.k = "inf" THEN b
    ELSE IF MagGe(a, b) THEN FAddOrdered(a, b) ELSE FAddOrdered(b, a)

\* bit-serial long division: n more quotient bits of r / d appended to q
RECURSIVE LongDiv(_, _, _, _)
LongDiv(r, d, n, q) ==
    IF n = 0 THEN <<q, r>>
    ELSE LET r2 == 2 * r
         IN  IF r2 >= d THEN LongDiv(r2 - d, d, n - 1, 2 * q + 1)
             ELSE LongDiv(r2, d, n - 1, 2 * q)

\* a / b
FDiv(a, b) ==
    LET s == (a.s + b.s) % 2
    IN  IF a.k = "nan" \/ b.k = "nan" THEN FNaN
        ELSE IF a.k = "inf" THEN (IF b.k = "inf" THEN FNaN ELSE FInf(s))
        ELSE IF b.k = "inf" THEN FZero(s)
        ELSE IF b.m = 0 THEN (IF a.m = 0 THEN FNaN ELSE FInf(s))
        ELSE IF a.m = 0 THEN FZero(s)
        ELSE
        LET la == 24 - BitLen(a.m)
            lb == 24 - BitLen(b.m)
            ma == a.m * (2 ^ la)
            mb == b.m * (2 ^ lb)
            qr == LongDiv(ma % mb, mb, 25, ma \div mb)
            jam == 2 * qr[1] + (IF qr[2] # 0 THEN 1 ELSE 0)
        IN  RoundPack(s, jam \div Limb, jam % Limb,
                      (a.e - la) - (b.e - lb) - 26)

\* a < b and a <= b (false when either is NaN)
FKey(a) == IF a.k = "inf" THEN <<EMax + 1, 0>> ELSE <<a.e, a.m>>
MagLt(a, b) == FKey(a)[1] < FKey(b)[1]
               \/ (FKey(a)[1] = FKey(b)[1] /\ FKey(a)[2] < FKey(b)[2])
FLt(a, b) ==
    /\ a.k # "nan" /\ b.k # "nan"
    /\ ~(FIsZero(a) /\ FIsZero(b))
    /\ IF a.s # b.s THEN a.s = 1
       ELSE IF a.s = 0 THEN MagLt(a, b) ELSE MagLt(b, a)
FEq(a, b) ==
    /\ a.k # "nan" /\ b.k # "nan"
    /\ (a = b \/ (FIsZero(a) /\ FIsZero(b)))
FLe(a, b) == FLt(a, b) \/ FEq(a, b)

\* a float from its bit pattern without the sign bit, and back
FromBits(s, bits) ==
    LET ex == bits \div Hidden
        fr == bits % Hidden
    IN  IF ex = 255 THEN (IF fr = 0 THEN FInf(s) ELSE FNaN)
        ELSE IF ex = 0 THEN [k |-> "fin", s |-> s, m |-> fr, e |-> EMin]
        ELSE [k |-> "fin", s |-> s, m |-> Hidden + fr, e |-> ex - 150]
FBits(a) ==
    IF a.k = "inf" THEN 255 * Hidden
    ELSE IF a.k = "nan" THEN 255 * Hidden + 4194304
    ELSE IF a.m < Hidden THEN a.m
    ELSE (a.e + 150) * Hidden + (a.m - Hidden)

---------------------------------------------------------------------------
(* img_ops.c: to_uchar and the Gaussian kernel                             *)

\* roundf of a finite float v with 0 <= v <= 255, as an int: to nearest,
\* halves away from zero
RoundfToInt(v) ==
    CASE v.k = "fin" /\ v.e >= 0 -> v.m * (2 ^ v.e)
      [] v.k = "fin" /\ v.e < 0 /\ v.e >= -24 ->
            LET d == 2 ^ (-v.e)
            IN  (v.m \div d) + (IF 2 * (v.m % d) >= d THEN 1 ELSE 0)
      [] v.k = "fin" /\ v.e < -24 -> 0

\* to_uchar with the cast alone: (unsigned char)value, no roundf
to_uchar_truncates(value) ==
    LET v == IF FLt(value, FromInt(0)) THEN FromInt(0)
             ELSE IF FLt(FromInt(255), value) THEN FromInt(255)
             ELSE value
    IN  IF v.e >= 0 THEN v.m * (2 ^ v.e)
        ELSE IF v.e >= -24 THEN v.m \div (2 ^ (-v.e)) ELSE 0

to_uchar(value) ==
    LET v == IF FLt(value, FromInt(0)) THEN FromInt(0)
             ELSE IF FLt(FromInt(255), value) THEN FromInt(255)
             ELSE value
    IN  RoundfToInt(v)

\* (int)ceilf(x) for a finite x of magnitude below 2^30
CeilfToInt(x) ==
    LET mag == IF x.e >= 0 THEN x.m * (2 ^ x.e)
               ELSE IF x.e < -24 THEN 0 ELSE x.m \div (2 ^ (-x.e))
        frac == IF x.e >= 0 THEN FALSE
                ELSE IF x.e < -24 THEN x.m # 0 ELSE x.m % (2 ^ (-x.e)) # 0
    IN  IF x.s = 1 THEN -mag ELSE mag + (IF frac THEN 1 ELSE 0)

\* expf on the arguments the kernels below pass it: the C library's values,
\* keyed and given as bit patterns (x <= 0 throughout)
ExpfTable ==
    0 :> 1065353216 @@ 1390990498 :> 0 @@ 1085392668 :> 998071140
    @@ 1073741824 :> 1040880981 @@ 1090519040 :> 967827720
    @@ 1061683199 :> 1055549731 @@ 1078460415 :> 1026815802
    @@ 1088487423 :> 979873948 @@ 1056964608 :> 1058751896
    @@ 1083179008 :> 1010172546 @@ 1046711865 :> 1062010144
    @@ 1063489081 :> 1053982031 @@ 1080266297 :> 1021968946
    @@ 1040187392 :> 1063381841 @@ 1066401792 :> 1051080921
    @@ 1078460416 :> 1026815799 @@ 1390990501 :> 0 @@ 1446372897 :> 0
    @@ 1083179007 :> 1010172552

expf(x) ==
    IF x.k = "nan" THEN FNaN
    ELSE IF x.k = "inf" THEN (IF x.s = 1 THEN FZero(0) ELSE FInf(0))
    ELSE IF x.m = 0 THEN FromInt(1)
    ELSE FromBits(0, ExpfTable[FBits(x)])

\* line 44: the kernel radius
KernelRadius(sigma) == CeilfToInt(FMul(FromInt(3), sigma))

\* line 62: the unnormalised weight at offset i
KernelVal(i, sigma) ==
    expf(FDiv(FNeg(FromInt(i * i)), FMul(FMul(FromInt(2), sigma), sigma)))

\* lines 59-66: the generation loop from offset i on, given the weights
\* written and the running sum so far; <<values, sum>>
RECURSIVE KernelFill(_, _, _, _, _)
KernelFill(values, sum, i, radius, sigma) ==
    IF i > radius THEN <<values, sum>>
    ELSE LET val == KernelVal(i, sigma)
         IN  KernelFill(Append(values, val), FAdd(sum, val), i + 1, radius, sigma)

\* lines 69-72: the normalisation loop
KernelNormalise(values, sum) == [j \in 1..Len(values) |-> FDiv(values[j], sum)]

\* the kernel of a successful generate_gaussian_kernel(sigma); values[j] is
\* the C values[j - 1]
generate_gaussian_kernel(sigma) ==
    LET radius == KernelRadius(sigma)
        filled == KernelFill(<<>>, FZero(0), -radius, radius, sigma)
    IN  [radius |-> radius, values |-> KernelNormalise(filled[1], filled[2])]


---------------------------------------------------------------------------
(* img_ops.c: the two convolution passes.  A buffer is a sequence of       *)
(* bytes; the C index k is the index k + 1 here.                           *)

\* lines 111-112, 152-153, 298-299: clamp to edge
ClampIdx(n, size) == IF n < 0 THEN 0 ELSE IF n >= size THEN size - 1 ELSE n

\* line 115: the index read for kernel offset `offset` at row i, column j
HPixelIdx(i, j, channel, offset, width, channels) ==
    (i * width + ClampIdx(j + offset, width)) * channels + channel

\* line 156
VPixelIdx(i, j, channel, offset, width, height, channels) ==
    (ClampIdx(i + offset, height) * width + j) * channels + channel

\* lines 122, 163
OutputPixelIdx(i, j, channel, width, channels) == (i * width + j) * channels + channel

\* lines 104-120, 145-161: the weighted sum, accumulated offset by offset
\* in float; idx[offset] is the C index read at that offset
RECURSIVE WeightedSum(_, _, _, _, _)
WeightedSum(input_data, kernel, idx, offset, acc) ==
    IF offset > kernel.radius THEN acc
    ELSE WeightedSum(input_data, kernel, idx, offset + 1,
            FAdd(acc, FMul(FromInt(input_data[idx[offset] + 1]),
                           kernel.values[offset + kernel.radius + 1])))

\* the byte horizontal_convolution writes at (i, j, channel)
HConvAt(input_data, i, j, channel, channels, width, kernel) ==
    to_uchar(WeightedSum(input_data, kernel,
                [offset \in (-kernel.radius)..kernel.radius |->
                    HPixelIdx(i, j, channel, offset, width, channels)],
                -kernel.radius, FZero(0)))

\* the byte vertical_convolution writes at (i, j, channel)
VConvAt(input_data, i, j, channel, channels, width, height, kernel) ==
    to_uchar(WeightedSum(input_data, kernel,
                [offset \in (-kernel.radius)..kernel.radius |->
                    VPixelIdx(i, j, channel, offset, width, height, channels)],
                -kernel.radius, FZero(0)))

\* row, column and channel of the C output index k
RowOf(k, width, channels) == k \div (width * channels)
ColOf(k, width, channels) == (k \div channels) % width
ChanOf(k, channels) == k % channels

\* the output buffer after horizontal_convolution: every index is written
\* once, from input_data alone
horizontal_convolution(input_data, channels, width, height, kernel) ==
    [n \in 1..(height * width * channels) |->
        HConvAt(input_data, RowOf(n - 1, width, channels),
                ColOf(n - 1, width, channels), ChanOf(n - 1, channels),
                channels, width, kernel)]

vertical_convolution(input_data, channels, width, height, kernel) ==
    [n \in 1..(height * width * channels) |->
        VConvAt(input_data, RowOf(n - 1, width, channels),
                ColOf(n - 1, width, channels), ChanOf(n - 1, channels),
                channels, width, height, kernel)]

---------------------------------------------------------------------------
(* img_ops.c: the channel reducer                                          *)

\* the float literals of line 256
Luma_R == FromBits(0, 1050220167)
Luma_G == FromBits(0, 1058424226)
Luma_B == FromBits(0, 1038710997)

\* lines 251-258: gray = 0.299f * r + 0.587f * g + 0.114f * b, in float
LumaOf(r, g, b) ==
    to_uchar(FAdd(FAdd(FMul(Luma_R, FromInt(r)), FMul(Luma_G, FromInt(g))),
                  FMul(Luma_B, FromInt(b))))

\* convert_to_one_channel copying one row only: memcpy of width bytes
convert_to_one_channel_one_row(input_data, output_data, width, height, channels_in) ==
    IF channels_in = 1
    THEN [n \in 1..Len(output_data) |->
            IF n <= width THEN input_data[n] ELSE output_data[n]]
    ELSE [n \in 1..Len(output_data) |->
            LumaOf(input_data[(n - 1) * channels_in + 1],
                   input_data[(n - 1) * channels_in + 2],
                   input_data[(n - 1) * channels_in + 3])]

\* convert_to_one_channel taking a 4-channel pixel for ARGB: the colour is
\* read from bytes 1, 2, 3 of the pixel instead of 0, 1, 2
convert_to_one_channel_argb(input_data, output_data, width, height, channels_in) ==
    IF channels_in = 1
    THEN [n \in 1..Len(output_data) |-> input_data[n]]
    ELSE [n \in 1..Len(output_data) |->
            LumaOf(input_data[(n - 1) * channels_in + channels_in - 2],
                   input_data[(n - 1) * channels_in + channels_in - 1],
                   input_data[(n - 1) * channels_in + channels_in])]

\* output_data after the call; output_data comes in as the buffer's
\* previous content and is returned as it was for a channel count other
\* than 1, 3 and 4 (no branch writes it)
convert_to_one_channel(input_data, output_data, width, height, channels_in) ==
    IF channels_in = 1
    THEN [n \in 1..Len(output_data) |->
            IF n <= height * width THEN input_data[n] ELSE output_data[n]]
    ELSE IF channels_in = 3 \/ channels_in = 4
    THEN [n \in 1..Len(output_data) |->
            IF n <= width * height
            THEN LumaOf(input_data[(n - 1) * channels_in + 1],
                        input_data[(n - 1) * channels_in + 2],
                        input_data[(n - 1) * channels_in + 3])
            ELSE output_data[n]]
    ELSE output_data


---------------------------------------------------------------------------
(* img_ops.c: the Sobel gradient magnitude.  The derivatives are sums of   *)
(* bytes times -1, 0, 1 and the smoothed values sums of those times 1, 2,  *)
(* 1: integers of magnitude at most 1020, which float holds exactly, as it *)
(* does gx * gx + gy * gy <= 2080800 < 2^24.  They are kept as integers.   *)

\* the content of memory that was allocated and never written
Indet == "indeterminate"

\* floor of the square root of n, by bisection between lo and hi
RECURSIVE ISqrt(_, _, _)
ISqrt(n, lo, hi) ==
    IF lo >= hi THEN lo
    ELSE LET mid == (lo + hi + 1) \div 2
         IN  IF mid * mid <= n THEN ISqrt(n, mid, hi) ELSE ISqrt(n, lo, mid - 1)

\* lines 357-358: to_uchar(sqrtf(gx * gx + gy * gy)).  sqrtf is correctly
\* rounded and sqrt(n) for an integer n is further than 4e-4 from every
\* k + 1/2 with k <= 255, so rounding the float equals rounding the root:
\* k when k*k - k < n <= k*k + k, and everything above 255 clamps to 255
SobelMagnitude(gx, gy) ==
    LET n == gx * gx + gy * gy
        f == ISqrt(n, 0, 1443)
        k == IF n > f * f + f THEN f + 1 ELSE f
    IN  IF k > 255 THEN 255 ELSE k

\* dI/dx had deriv_kernel been {1, 0, 1}
SobelRowDx_sums(input, i, width) ==
    [j1 \in 1..width |->
        input[i * width + ClampIdx(j1 - 1 + 1, width) + 1]
        + input[i * width + ClampIdx(j1 - 1 - 1, width) + 1]]

\* lines 291-305: dI/dx of row i with deriv_kernel = {-1, 0, 1}
SobelRowDx(input, i, width) ==
    [j1 \in 1..width |->
        input[i * width + ClampIdx(j1 - 1 + 1, width) + 1]
        - input[i * width + ClampIdx(j1 - 1 - 1, width) + 1]]

\* lines 308-322: dI/dy of row i
SobelRowDy(input, i, width, height) ==
    [j1 \in 1..width |->
        input[ClampIdx(i + 1, height) * width + (j1 - 1) + 1]
        - input[ClampIdx(i - 1, height) * width + (j1 - 1) + 1]]

\* the output row had line 334 read i
SobelOutputRow_current(i) == i

\* the output row had line 334 read i - 2
SobelOutputRow_top(i) == i - 2

\* line 334: the output row written at scan iteration i
SobelOutputRow(i) == i - 1

\* lines 336-359: the magnitudes of one output row from the ring buffers;
\* slot s of the C buffers is index s + 1 here
SobelEmitRow(dx_buf, dy_buf, i, width) ==
    LET prev_prev_buf_row == (i - 2) % 3
        prev_buf_row == (i - 1) % 3
        curr_buf_row == i % 3
    IN  [j1 \in 1..width |->
            LET gx == dx_buf[prev_prev_buf_row + 1][j1]
                      + dx_buf[prev_buf_row + 1][j1] * 2
                      + dx_buf[curr_buf_row + 1][j1]
                gy == dy_buf[prev_buf_row + 1][ClampIdx(j1 - 1 - 1, width) + 1]
                      + dy_buf[prev_buf_row + 1][ClampIdx(j1 - 1, width) + 1] * 2
                      + dy_buf[prev_buf_row + 1][ClampIdx(j1 - 1 + 1, width) + 1]
            IN  SobelMagnitude(gx, gy)]

\* line 326: whether scan iteration i emits a row
SobelEmits(i) == ~(i < 2)

\* lines 285-360: the scan from row i on; the gradient map at the end
RECURSIVE SobelScan(_, _, _, _, _, _, _)
SobelScan(input, out, dx_buf, dy_buf, i, width, height) ==
    IF ~(i < height) THEN out
    ELSE
    LET current_buf_row == i % 3
        dx2 == [dx_buf EXCEPT ![current_buf_row + 1] = SobelRowDx(input, i, width)]
        dy2 == [dy_buf EXCEPT ![current_buf_row + 1] = SobelRowDy(input, i, width, height)]
    IN  IF ~SobelEmits(i)
        THEN SobelScan(input, out, dx2, dy2, i + 1, width, height)
        ELSE LET row == SobelEmitRow(dx2, dy2, i, width)
                 out2 == [n \in 1..Len(out) |->
                            IF (n - 1) \div width = SobelOutputRow(i)
                            THEN row[((n - 1) % width) + 1] ELSE out[n]]
             IN  SobelScan(input, out2, dx2, dy2, i + 1, width, height)

\* output_gradient_map after the call, from its content before it
compute_sobel_magnitude(input_grayscale_data, output_gradient_map, width, height) ==
    LET fresh == [s \in 1..3 |-> [j1 \in 1..width |-> Indet]]
    IN  SobelScan(input_grayscale_data, output_gradient_map, fresh, fresh,
                  0, width, height)

---------------------------------------------------------------------------
(* imageproc_A.c: the sliding-histogram median                             *)

\* lines 8-12
clamp(val, min_val, max_val) ==
    IF val < min_val THEN min_val ELSE IF val > max_val THEN max_val ELSE val

\* lines 49-63: the padded canvas; nothing is written when w_pad or h_pad
\* is not positive
PaddedCopy(source, width, height, chan, radius, size) ==
    LET w_pad == width + radius * 2
        h_pad == height + radius * 2
        wc == width * chan
        wc_pad == w_pad * chan
    IN  [n \in 1..size |->
            IF w_pad > 0 /\ h_pad > 0
            THEN LET i == (n - 1) \div wc_pad
                     j == ((n - 1) % wc_pad) \div chan
                     c == (n - 1) % chan
                     i_src == clamp(i - radius, 0, height - 1)
                     j_src == clamp(j - radius, 0, width - 1)
                 IN  source[i_src * wc + j_src * chan + c + 1]
            ELSE Indet]

\* one histogram cell changed by d
HistBump(hist, v, d) == [hist EXCEPT ![v] = @ + d]

\* a column of the window, rows y .. y + n - 1 at canvas column col, added
\* to (d = 1) or removed from (d = -1) the histogram
RECURSIVE HistColumn(_, _, _, _, _, _, _, _, _, _)
HistColumn(hist, padded, y, ldp, col, channels, c, i_win, n, d) ==
    IF ~(i_win < n) THEN hist
    ELSE HistColumn(HistBump(hist, padded[(y + i_win) * ldp + col * channels + c + 1], d),
                    padded, y, ldp, col, channels, c, i_win + 1, n, d)

RECURSIVE HistFill(_, _, _, _, _, _, _, _, _)
HistFill(hist, padded, y, ldp, x, channels, c, j, window) ==
    IF ~(j < x + window) THEN hist
    ELSE HistFill(HistColumn(hist, padded, y, ldp, j, channels, c, 0, window, 1),
                  padded, y, ldp, x, channels, c, j + 1, window)

\* hist_set had line 127 stopped one column early (j < x + window - 1)
hist_set_one_column_short(padded, y, ldp, x, channels, c, window) ==
    [hist |-> HistFill([h \in 0..255 |-> 0], padded, y, ldp, x, channels, c, x,
                       window - 1),
     hy |-> y, hx |-> x]

\* lines 118-134: the histogram of the window at (x, y), and the origin
hist_set(padded, y, ldp, x, channels, c, window) ==
    [hist |-> HistFill([h \in 0..255 |-> 0], padded, y, ldp, x, channels, c, x, window),
     hy |-> y, hx |-> x]

\* one slide to the right had the leaving column (lines 138-142) stayed in
hist_move_keeps_column(hist, padded, y, ldp, hx, channels, c, win_s) ==
    [hist |-> HistColumn(hist, padded, y, ldp, hx + 1 + win_s - 1, channels, c,
                         0, win_s, 1),
     hx |-> hx + 1]

\* one slide to the right had line 137 been read after line 144: the
\* column removed is the one at the new origin
hist_move_removes_new_origin(hist, padded, y, ldp, hx, channels, c, win_s) ==
    [hist |-> HistColumn(HistColumn(hist, padded, y, ldp, hx + 1, channels, c,
                                    0, win_s, -1),
                         padded, y, ldp, hx + win_s, channels, c, 0, win_s, 1),
     hx |-> hx + 1]

\* lines 136-151: one slide to the right
hist_move(hist, padded, y, ldp, hx, channels, c, win_s) ==
    LET removed == HistColumn(hist, padded, y, ldp, hx, channels, c, 0, win_s, -1)
        hx2 == hx + 1
        col_to_add_idx == hx2 + win_s - 1
    IN  [hist |-> HistColumn(removed, padded, y, ldp, col_to_add_idx, channels, c, 0, win_s, 1),
         hx |-> hx2]

\* the counts of the bins in s, summed
RECURSIVE HistSum(_, _)
HistSum(hist, s) ==
    IF s = {} THEN 0
    ELSE LET v == CHOOSE u \in s : TRUE
         IN  hist[v] + HistSum(hist, s \ {v})

\* the scan had line 160 tested cnt >= half: the first bin at which the
\* running count reaches half, bin 0 when half is 0
get_median_reaches_half(hist, win_sqr) ==
    LET half == win_sqr \div 2
        hits == {i \in 0..255 : HistSum(hist, {u \in 0..i : hist[u] # 0}) >= half}
    IN  IF hits = {} THEN 255
        ELSE CHOOSE i \in hits : \A k \in hits : i <= k

\* the scan had line 156 rounded half up: half = (win_sqr + 1) / 2
get_median_rounds_half_up(hist, win_sqr) ==
    LET half == (win_sqr + 1) \div 2
        nz == {i \in 0..255 : hist[i] # 0}
        hits == {i \in nz : HistSum(hist, {u \in nz : u <= i}) > half}
    IN  IF hits = {} THEN 255
        ELSE CHOOSE i \in hits : \A k \in hits : i <= k

\* lines 153-163: the first bin i at which the running count cnt exceeds
\* half, or 255.  cnt passes half only at a bin whose count is positive, so
\* the scan is taken over the non-empty bins
get_median(hist, win_sqr) ==
    LET half == win_sqr \div 2
        nz == {i \in 0..255 : hist[i] # 0}
        hits == {i \in nz : HistSum(hist, {u \in nz : u <= i}) > half}
    IN  IF hits = {} THEN 255
        ELSE CHOOSE i \in hits : \A k \in hits : i <= k

\* lines 90-99: the medians of row i of channel c, columns 0 .. width - 1
RECURSIVE MedianSlide(_, _, _, _, _, _, _, _, _, _, _)
MedianSlide(h, padded, wc_pad, chan, c, win_size, win_area, width, j, acc, last) ==
    IF ~(j < last) THEN Append(acc, get_median(h.hist, win_area))
    ELSE MedianSlide(hist_move(h.hist, padded, h.hy, wc_pad, h.hx, chan, c, win_size)
                        @@ [hy |-> h.hy],
                     padded, wc_pad, chan, c, win_size, win_area, width, j + 1,
                     Append(acc, get_median(h.hist, win_area)), last)

MedianRow(padded, i, wc_pad, chan, c, win_size, win_area, width) ==
    MedianSlide(hist_set(padded, i, wc_pad, 0, chan, c, win_size),
                padded, wc_pad, chan, c, win_size, win_area, width, 0, <<>>, width - 1)

\* lines 84-101: image->data after the filter pass; the pass reads the
\* canvas only, so every byte is the median its row's slide emitted
MedianPass(source, padded, width, height, chan, radius) ==
    LET win_size == radius * 2 + 1
        win_area == win_size * win_size
        wc_pad == (width + radius * 2) * chan
        rows == [c \in 0..(chan - 1) |-> [i \in 0..(height - 1) |->
                    MedianRow(padded, i, wc_pad, chan, c, win_size, win_area, width)]]
    IN  [n \in 1..Len(source) |->
            rows[(n - 1) % chan][(n - 1) \div (width * chan)][(((n - 1) \div chan) % width) + 1]]


---------------------------------------------------------------------------
(* The heap.  heap maps the addresses of the live blocks to their content; *)
(* malloc hands out the lowest address that is not live (which address a   *)
(* real allocator picks is unspecified; only equality of addresses is      *)
(* observed).  A call threads a record m through its steps: the heap, the  *)
(* allocation attempts <<kind, count, address or NULL>> and the addresses  *)
(* freed so far, whether a free hit a block that was not live, and whether *)
(* the pixel data of the image was read or written.                        *)

NULL == 0

\* a value computed once and named: Then(e, LAMBDA x : body)
Then(x, F(_)) == F(x)

FreshAddr(hp) ==
    CHOOSE a \in 1..(Cardinality(DOMAIN hp) + 1) :
        a \notin DOMAIN hp /\ \A b \in 1..(a - 1) : b \in DOMAIN hp

Store(hp, a, content) ==
    [q \in (DOMAIN hp) \cup {a} |-> IF q = a THEN content ELSE hp[q]]

Release(hp, p) == [q \in (DOMAIN hp) \ {p} |-> hp[q]]

Entry(hp) == [heap |-> hp, allocs |-> <<>>, frees |-> <<>>, bad |-> FALSE,
              rd |-> FALSE, wr |-> FALSE, ret |-> NULL]

\* malloc/calloc of `count` elements holding `content`; it fails when the
\* caller of the model says so (fails) and always for a negative size,
\* which size_t turns into a request larger than the address space
Malloc(m, kind, count, content, fails) ==
    IF fails \/ count < 0
    THEN [m EXCEPT !.allocs = Append(@, <<kind, count, NULL>>), !.ret = NULL]
    ELSE LET a == FreshAddr(m.heap)
         IN  [m EXCEPT !.heap = Store(@, a, content),
                       !.allocs = Append(@, <<kind, count, a>>),
                       !.ret = a]

\* free(p); free(NULL) does nothing
Free(m, p) ==
    IF p = NULL THEN m
    ELSE [m EXCEPT !.heap = Release(@, p),
                   !.frees = Append(@, p),
                   !.bad = @ \/ p \notin DOMAIN m.heap]

Filled(n, v) == [k \in 1..n |-> v]

\* what a handler hands back: the status, the Image structure and m
Outcome(st, img, m) == [status |-> st, image |-> img, m |-> m]

---------------------------------------------------------------------------
(* img_ops.c: ipl_gaussian_filter                                          *)

\* the float literal 1e-6f of line 190
Sigma_1e_6 == FromBits(0, 897988541)

\* the test of line 187 left out
SigmaNegative_unchecked(sigma) == FALSE

\* line 187
SigmaNegative(sigma) == FLt(sigma, FZero(0))

\* the test of line 190 with < for <=
SigmaTooSmall_strict(sigma) == FLt(sigma, Sigma_1e_6)

\* line 190
SigmaTooSmall(sigma) == FLe(sigma, Sigma_1e_6)

\* lines 48-56 of generate_gaussian_kernel: the two allocations; ret is the
\* Kernel block or NULL.  fail is the number of the allocation of the call
\* that fails (0: none)
KernelAlloc(m, sigma, fail) ==
    Then(Malloc(m, "Kernel", 1,
                [radius |-> KernelRadius(sigma), values |-> NULL], fail = 1),
    LAMBDA m1 :
        IF m1.ret = NULL THEN m1
        ELSE Then(Malloc(m1, "float", 2 * KernelRadius(sigma) + 1,
                         generate_gaussian_kernel(sigma).values, fail = 2),
             LAMBDA m2 :
                 IF m2.ret = NULL
                 THEN [Free(m2, m1.ret) EXCEPT !.ret = NULL]
                 ELSE [m2 EXCEPT !.heap[m1.ret].values = m2.ret,
                                 !.ret = m1.ret]))

\* free_kernel without line 83: the values array is left allocated
free_kernel_struct_only(m, kernel) ==
    IF kernel # NULL THEN Free(m, kernel) ELSE m

\* lines 80-86
free_kernel(m, kernel) ==
    IF kernel # NULL THEN Free(Free(m, m.heap[kernel].values), kernel) ELSE m

\* the vertical pass run in place, on image->data
VerticalSource_in_place(image_data, tmp_data) == image_data

\* line 211: the buffer the vertical pass reads
VerticalSource(image_data, tmp_data) == tmp_data

\* lines 184-217
ipl_gaussian_filter(null, img, hp, sigma, fail) ==
    IF null \/ img.data = NULL THEN Outcome("INVALID_ARGUMENT", img, Entry(hp))
    ELSE IF SigmaNegative(sigma) THEN Outcome("INVALID_ARGUMENT", img, Entry(hp))
    ELSE IF SigmaTooSmall(sigma) THEN Outcome("SUCCESS", img, Entry(hp))
    ELSE
    Then(KernelAlloc(Entry(hp), sigma, fail), LAMBDA m1 :
        IF m1.ret = NULL THEN Outcome("OUT_OF_MEMORY", img, m1)
        ELSE
        Then(Malloc(m1, "uchar", img.height * img.width * img.channels,
                    Filled(img.height * img.width * img.channels, Indet),
                    fail = 3),
        LAMBDA m2 :
            IF m2.ret = NULL
            THEN Outcome("OUT_OF_MEMORY", img, free_kernel(m2, m1.ret))
            ELSE
            Then([radius |-> m2.heap[m1.ret].radius,
                  values |-> m2.heap[m2.heap[m1.ret].values]],
            LAMBDA K :
                Then([m2 EXCEPT !.heap[m2.ret] =
                          horizontal_convolution(m2.heap[img.data], img.channels,
                                                 img.width, img.height, K),
                      !.rd = TRUE],
                LAMBDA m3 :
                    Then([m3 EXCEPT !.heap[img.data] =
                              vertical_convolution(
                                  m3.heap[VerticalSource(img.data, m2.ret)],
                                  img.channels, img.width, img.height, K),
                          !.wr = TRUE],
                    LAMBDA m4 :
                        Outcome("SUCCESS", img,
                                Free(free_kernel(m4, m1.ret), m2.ret)))))))

---------------------------------------------------------------------------
(* img_ops.c: ipl_sobel_edge_detection                                     *)

\* the structure after a successful call without line 401
SobelInstall_keeps_channels(img, gradient_map_data) ==
    [img EXCEPT !.data = gradient_map_data]

\* lines 401-402: the structure after a successful call
SobelInstall(img, gradient_map_data) ==
    [img EXCEPT !.channels = 1, !.data = gradient_map_data]

\* lines 390-394 freeing image->data instead of grayscale_data
GradientMapFailed_frees_image(img, m, grayscale_data) ==
    Outcome("OUT_OF_MEMORY", img, Free(m, img.data))

\* lines 390-394: calloc of the gradient map failed
GradientMapFailed(img, m, grayscale_data) ==
    Outcome("OUT_OF_MEMORY", img, Free(m, grayscale_data))

\* lines 375-405.  junk is the byte malloc's memory happens to hold
ipl_sobel_edge_detection(null, img, hp, fail, junk) ==
    IF null \/ img.data = NULL THEN Outcome("INVALID_ARGUMENT", img, Entry(hp))
    ELSE
    Then(Malloc(Entry(hp), "uchar", img.width * img.height,
                Filled(img.width * img.height, junk), fail = 1),
    LAMBDA m1 :
        IF m1.ret = NULL THEN Outcome("OUT_OF_MEMORY", img, m1)
        ELSE
        Then([m1 EXCEPT !.heap[m1.ret] =
                  convert_to_one_channel(m1.heap[img.data], m1.heap[m1.ret],
                                         img.width, img.height, img.channels),
              !.rd = img.channels \in {1, 3, 4}],
        LAMBDA m2 :
            Then(Malloc(m2, "uchar", img.width * img.height,
                        Filled(img.width * img.height, 0), fail = 2),
            LAMBDA m3 :
                IF m3.ret = NULL
                THEN GradientMapFailed(img, m3, m1.ret)
                ELSE
                Then([m3 EXCEPT !.heap[m3.ret] =
                          compute_sobel_magnitude(m3.heap[m1.ret],
                              m3.heap[m3.ret], img.width, img.height)],
                LAMBDA m4 :
                    Outcome("SUCCESS", SobelInstall(img, m3.ret),
                            Free(Free(m4, m1.ret), img.data))))))

---------------------------------------------------------------------------
(* imageproc_A.c: ipl_median_filter and ipl_grayscale.  Neither tests its  *)
(* arguments: a null image, or null image->data once a byte of it is       *)
(* touched, is a null dereference, which ends the process ("SIGSEGV").     *)

\* lines 22-107
ipl_median_filter(null, img, hp, radius, fail) ==
    IF null THEN Outcome("SIGSEGV", img, Entry(hp))
    ELSE
    Then((img.width + radius * 2) * (img.height + radius * 2) * img.channels,
    LAMBDA size :
        Then(Malloc(Entry(hp), "uchar", size, Filled(size, Indet), fail = 1),
        LAMBDA m1 :
            IF m1.ret = NULL THEN Outcome("OUT_OF_MEMORY", img, m1)
            ELSE IF img.data = NULL THEN Outcome("SIGSEGV", img, m1)
            ELSE
            Then([m1 EXCEPT !.heap[m1.ret] =
                      PaddedCopy(m1.heap[img.data], img.width, img.height,
                                 img.channels, radius, size),
                  !.rd = img.width + radius * 2 > 0
                         /\ img.height + radius * 2 > 0],
            LAMBDA m2 :
                Then([m2 EXCEPT !.heap[img.data] =
                          MedianPass(m2.heap[img.data], m2.heap[m1.ret],
                                     img.width, img.height, img.channels,
                                     radius),
                      !.wr = TRUE],
                LAMBDA m3 : Outcome("SUCCESS", img, Free(m3, m1.ret))))))

\* the install without line 174: format is left as it was
GrayscaleInstall_keeps_format(img, output_data) ==
    [img EXCEPT !.data = output_data, !.channels = 1]

\* the structure had line 173 (channels = GRAYSCALE) been left out
GrayscaleInstall_keeps_channels(img, output_data) ==
    [img EXCEPT !.data = output_data, !.format = "JPEG"]

\* lines 171-174: the structure after a successful call
GrayscaleInstall(img, output_data) ==
    [img EXCEPT !.data = output_data, !.channels = 1, !.format = "JPEG"]

\* lines 165-177
ipl_grayscale(null, img, hp, fail, junk) ==
    IF null THEN Outcome("SIGSEGV", img, Entry(hp))
    ELSE
    Then(Malloc(Entry(hp), "uchar", img.width * img.height,
                Filled(img.width * img.height, junk), fail = 1),
    LAMBDA m1 :
        IF m1.ret = NULL THEN Outcome("OUT_OF_MEMORY", img, m1)
        ELSE IF img.data = NULL /\ img.channels \in {1, 3, 4}
        THEN Outcome("SIGSEGV", img, m1)
        ELSE
        Then([m1 EXCEPT !.heap[m1.ret] =
                  convert_to_one_channel(
                      IF img.data = NULL THEN <<>> ELSE m1.heap[img.data],
                      m1.heap[m1.ret], img.width, img.height, img.channels),
              !.rd = img.channels \in {1, 3, 4}],
        LAMBDA m2 :
            Outcome("SUCCESS", GrayscaleInstall(img, m1.ret),
                    Free(m2, img.data))))

---------------------------------------------------------------------------
(* The caller's view: one Image, the heap, and a sequence of filter calls  *)
(* (main.c, lines 107-155, makes one; a library user any number).          *)

VARIABLES
    image,    \* the Image structure: format, width, height, channels, data
    heap,     \* the live heap blocks
    status,   \* what the last call returned ("NONE" before the first)
    call,     \* the last call: its arguments, the image before it, m's log
    ncalls,   \* calls made so far
    kst,      \* generate_gaussian_kernel, statement by statement
    gst,      \* ipl_gaussian_filter, output byte by output byte
    lst,      \* convert_to_one_channel applied to chosen inputs
    mst,      \* ipl_median_filter, its channel workers step by step
    fst,      \* ipl_load_image and ipl_save_image: the files and the sequence
    sst       \* compute_sobel_magnitude, scan iteration by scan iteration

vars == <<image, heap, status, call, ncalls, kst, gst, lst, mst, fst, sst>>

\* bounds of the model
MaxW == 2
MaxH == 2
MaxCalls == 2

\* the channel counts let through had input_output.c:113 tested 1..4
LoadableChannels_upto4 == 1..4

\* the channel counts ipl_load_image lets through (input_output.c:113)
LoadableChannels == {1, 3, 4}

\* the RGBA colours the initial images are painted with
Palette == << <<14, 2, 10, 255>>, <<200, 100, 50, 0>> >>

\* the colour index of pixel (x, y) in pattern p: 1 uniform, 2 vertical
\* stripes, 3 checkerboard
PatternColour(p, x, y) ==
    CASE p = 1 -> 1
      [] p = 2 -> 1 + (x % 2)
      [] OTHER -> 1 + ((x + y) % 2)

\* width x height pixels of `channels` bytes each, painted in pattern p with
\* the two RGBA colours of palette
Paint(palette, p, width, height, channels) ==
    [n \in 1..(width * height * channels) |->
        LET k == (n - 1) \div channels
            c == (n - 1) % channels
        IN  palette[PatternColour(p, k % width, k \div width)][c + 1]]

PaintedData(p, width, height, channels) ==
    Paint(Palette, p, width, height, channels)

Formats == {"PNG", "JPEG"}

\* the sigmas passed to ipl_gaussian_filter: -1, -1e-7f, 0, 1e-7f, 1e-6f,
\* 0.5f
Sigma_1e_7 == FromBits(0, 869711765)
Sigma_0_5 == FromBits(0, 1056964608)
GaussSigmas ==
    {FNeg(FromInt(1)), FNeg(Sigma_1e_7), FZero(0), Sigma_1e_7, Sigma_1e_6,
     Sigma_0_5}

\* the radii passed to ipl_median_filter
MedianRadii == {-1, 0, 1}

\* what malloc's memory may hold before it is written
JunkBytes == {0, 170}

NoCall == [op |-> "none", null |-> FALSE, arg |-> 0, pre |-> 0, preData |-> <<>>,
           allocs |-> <<>>, frees |-> <<>>, bad |-> FALSE, rd |-> FALSE, wr |-> FALSE]

Idle == [pc |-> "off"]

\* after ipl_load_image succeeded (data at address 1), or before any load
\* (main.c:108, data NULL)
InitImage ==
    \E width \in 1..MaxW, height \in 1..MaxH, channels \in LoadableChannels,
       format \in Formats, p \in 1..3, loaded \in BOOLEAN :
        /\ image = [format |-> format, width |-> width, height |-> height,
                    channels |-> channels, data |-> IF loaded THEN 1 ELSE NULL]
        /\ heap = IF loaded
                  THEN Store(<<>>, 1, PaintedData(p, width, height, channels))
                  ELSE <<>>

Init ==
    /\ InitImage
    /\ status = "NONE"
    /\ call = NoCall
    /\ ncalls = 0
    /\ kst = Idle /\ gst = Idle /\ lst = Idle /\ mst = Idle /\ fst = Idle /\ sst = Idle

\* the handler's outcome r becomes the state
Return(op, null, arg, r) ==
    /\ image' = r.image
    /\ heap' = r.m.heap
    /\ status' = r.status
    /\ call' = [op |-> op, null |-> null, arg |-> arg, pre |-> image,
                preData |-> IF image.data = NULL THEN <<>> ELSE heap[image.data],
                allocs |-> r.m.allocs, frees |-> r.m.frees, bad |-> r.m.bad,
                rd |-> r.m.rd, wr |-> r.m.wr]
    /\ ncalls' = ncalls + 1
    /\ UNCHANGED <<kst, gst, lst, mst, fst, sst>>

CanCall == status # "SIGSEGV" /\ ncalls < MaxCalls

Gaussian ==
    /\ CanCall
    /\ \E null \in BOOLEAN, sigma \in GaussSigmas, fail \in 0..3 :
        \E r \in {ipl_gaussian_filter(null, image, heap, sigma, fail)} :
            Return("gaussian", null, sigma, r)

Sobel ==
    /\ CanCall
    /\ \E null \in BOOLEAN, fail \in 0..2, junk \in JunkBytes :
        Return("sobel", null, 0,
               ipl_sobel_edge_detection(null, image, heap, fail, junk))

Median ==
    /\ CanCall
    /\ \E null \in BOOLEAN, radius \in MedianRadii, fail \in 0..1 :
        Return("median", null, radius,
               ipl_median_filter(null, image, heap, radius, fail))

Grayscale ==
    /\ CanCall
    /\ \E null \in BOOLEAN, fail \in 0..1, junk \in JunkBytes :
        Return("grayscale", null, 0,
               ipl_grayscale(null, image, heap, fail, junk))

Next == Gaussian \/ Sobel \/ Median \/ Grayscale

Spec == Init /\ [][Next]_vars

---------------------------------------------------------------------------
(* convert_to_one_channel on its own (imageproc.h:58 declares it): an      *)
(* input buffer, a second input that differs from it in alpha bytes only,  *)
(* and one output buffer for each.                                         *)

\* bounds of the inputs
LumaMaxW == 2
LumaMaxH == 2

\* (R, G, B): 14,2,10 and 0,0,250 have 0.299R + 0.587G + 0.114B = n + 1/2
LumaColours == {<<14, 2, 10>>, <<0, 0, 250>>, <<255, 255, 255>>, <<0, 255, 0>>}
LumaAlphas == {0, 255}
TwinAlphas == {0, 77}

WithAlpha(rgb, a) == <<rgb[1], rgb[2], rgb[3], a>>

InitLuma ==
    \E width \in 1..LumaMaxW, height \in 1..LumaMaxH,
       channels_in \in LoadableChannels, p \in 1..3,
       c1 \in LumaColours, c2 \in LumaColours,
       a \in LumaAlphas, b \in TwinAlphas, junk \in JunkBytes :
        /\ channels_in # 4 => a = 0 /\ b = 0
        /\ lst = [pc |-> "luma", width |-> width, height |-> height,
                  channels_in |-> channels_in,
                  input |-> Paint(<<WithAlpha(c1, a), WithAlpha(c2, a)>>,
                                  p, width, height, channels_in),
                  twin |-> Paint(<<WithAlpha(c1, b), WithAlpha(c2, 255 - a)>>,
                                 p, width, height, channels_in),
                  output |-> Filled(width * height, junk),
                  twin_output |-> Filled(width * height, junk),
                  done |-> FALSE, twin_done |-> FALSE]
        /\ image = Idle /\ heap = <<>> /\ status = "NONE" /\ call = NoCall
        /\ ncalls = 0 /\ kst = Idle /\ gst = Idle /\ mst = Idle /\ fst = Idle /\ sst = Idle

\* convert_to_one_channel(input, output, width, height, channels_in)
ConvertInput ==
    /\ lst.pc = "luma" /\ ~lst.done
    /\ lst' = [lst EXCEPT !.done = TRUE,
                          !.output = convert_to_one_channel(lst.input, @,
                                         lst.width, lst.height, lst.channels_in)]
    /\ UNCHANGED <<image, heap, status, call, ncalls, kst, gst, mst, fst, sst>>

\* convert_to_one_channel(twin, twin_output, width, height, channels_in)
ConvertTwin ==
    /\ lst.pc = "luma" /\ ~lst.twin_done
    /\ lst' = [lst EXCEPT !.twin_done = TRUE,
                          !.twin_output = convert_to_one_channel(lst.twin, @,
                                         lst.width, lst.height, lst.channels_in)]
    /\ UNCHANGED <<image, heap, status, call, ncalls, kst, gst, mst, fst, sst>>

NextLuma == ConvertInput \/ ConvertTwin

SpecLuma == InitLuma /\ [][NextLuma]_vars

---------------------------------------------------------------------------
(* Properties of the filter calls, checked under Spec                      *)

\* the bytes image->data points to, <<>> for a null pointer
DataOf(img, hp) == IF img.data = NULL THEN <<>> ELSE hp[img.data]

\* the call left the structure, the pointer and the bytes as they were
ImageUntouched ==
    /\ image = call.pre
    /\ image.data # NULL => image.data \in DOMAIN heap
    /\ DataOf(image, heap) = call.preData

\* an allocation of the call returned NULL
AllocationFailed == \E k \in 1..Len(call.allocs) : call.allocs[k][3] = NULL

\* C1: after any sequence of filter calls, succeeding or failing, the data
\* buffer of the image has exactly width * height * channels bytes for the
\* current width, height and channels.
C1_DataLengthInStep ==
    image.data # NULL =>
        /\ image.data \in DOMAIN heap
        /\ Len(heap[image.data]) = image.width * image.height * image.channels

\* a second call, a successful ipl_sobel_edge_detection, has replaced the
\* buffer of a 3-channel image of more than one pixel by a 1-channel one
C1_Witness ==
    /\ ncalls = 2 /\ call.op = "sobel" /\ status = "SUCCESS"
    /\ call.pre.channels = 3 /\ image.channels = 1
    /\ image.width * image.height > 1
    /\ image.data # call.pre.data
    /\ Len(heap[image.data]) = image.width * image.height

\* C2: when an allocation made during a filter call fails, the call returns
\* OUT_OF_MEMORY, and after a call that returned OUT_OF_MEMORY the image is
\* as before the call: same data pointer, bytes, width, height, channels
\* and format.
C2_FailedAllocationLeavesImage ==
    /\ (call.op # "none" /\ AllocationFailed) => status = "OUT_OF_MEMORY"
    /\ status = "OUT_OF_MEMORY" => ImageUntouched /\ AllocationFailed

\* ipl_sobel_edge_detection got its luma buffer, failed to get the
\* gradient map and returned OUT_OF_MEMORY on a loaded image
C2_Witness ==
    /\ call.op = "sobel" /\ status = "OUT_OF_MEMORY"
    /\ Len(call.allocs) = 2 /\ call.allocs[1][3] # NULL
    /\ call.allocs[2][3] = NULL
    /\ image.data # NULL /\ image.channels = 3

\* C3: a call of any of the four filters with a null image or null
\* image->data, or of the median filter with a radius < 0, returns
\* INVALID_ARGUMENT and has allocated nothing, read no pixel and written
\* none.
C3_ValidatesBeforeTouching ==
    (/\ call.op # "none"
     /\ \/ call.null
        \/ call.pre.data = NULL
        \/ call.op = "median" /\ call.arg < 0)
    => /\ status = "INVALID_ARGUMENT"
       /\ call.allocs = <<>>
       /\ ~call.rd /\ ~call.wr

\* C4: ipl_gaussian_filter with a sigma < 0 on a non-null image returns
\* INVALID_ARGUMENT, allocates nothing and leaves every byte of the data
\* and every field of the image as it was.
C4_NegativeSigmaRejected ==
    (call.op = "gaussian" /\ ~call.null /\ FLt(call.arg, FZero(0))) =>
        /\ status = "INVALID_ARGUMENT"
        /\ call.allocs = <<>>
        /\ ImageUntouched

\* ipl_gaussian_filter has returned from a call with sigma = -1e-7f on a
\* loaded image
C4_Witness ==
    /\ call.op = "gaussian" /\ ~call.null /\ call.arg = FNeg(Sigma_1e_7)
    /\ image.data # NULL /\ status = "INVALID_ARGUMENT"
    /\ Len(heap[image.data]) > 1

\* C5: ipl_gaussian_filter with 0 <= sigma <= 1e-6 on an image that has
\* data returns SUCCESS, allocates nothing (no kernel, no scratch buffer)
\* and leaves the data byte for byte as it was.
C5_TinySigmaIsNoOp ==
    (/\ call.op = "gaussian" /\ ~call.null /\ call.pre.data # NULL
     /\ FLe(FZero(0), call.arg) /\ FLe(call.arg, Sigma_1e_6))
    => /\ status = "SUCCESS"
       /\ call.allocs = <<>>
       /\ ~call.wr
       /\ ImageUntouched

\* ipl_gaussian_filter has returned SUCCESS from a call with sigma = 1e-6f
\* on a loaded image that is not one flat colour
C5_Witness ==
    /\ call.op = "gaussian" /\ ~call.null /\ call.arg = Sigma_1e_6
    /\ status = "SUCCESS" /\ image.data # NULL
    /\ image.width = 2 /\ image.channels = 1
    /\ heap[image.data][1] # heap[image.data][2]

---------------------------------------------------------------------------
(* generate_gaussian_kernel on its own (imageproc.h:53 declares it),       *)
(* statement by statement: kst holds its locals.                           *)

\* the sigmas it is called with: 1e-23f, 1.0000001e-6f, 0.3f, 0.33333334f,
\* 0.5f, 0.8f, 1.0f, 1.5f, 2.0f
KernelSigmas ==
    {FromBits(0, b) : b \in {423718298, 897988542, 1050253722, 1051372203,
                             1056964608, 1061997773, 1065353216, 1069547520,
                             1073741824}}

InitKernel ==
    /\ \E sigma \in KernelSigmas :
         kst = [pc |-> "entry", sigma |-> sigma, radius |-> 0, size |-> 0,
                kernel |-> "none", values |-> "none", sum |-> FZero(0),
                i |-> 0, ret |-> "none"]
    /\ image = Idle /\ heap = <<>> /\ status = "NONE" /\ call = NoCall
    /\ ncalls = 0 /\ gst = Idle /\ lst = Idle /\ mst = Idle /\ fst = Idle /\ sst = Idle

\* lines 44-46
KernelEnter ==
    /\ kst.pc = "entry"
    /\ kst' = [kst EXCEPT !.pc = "malloc_kernel",
                          !.radius = KernelRadius(kst.sigma),
                          !.size = 2 * KernelRadius(kst.sigma) + 1]
    /\ UNCHANGED <<image, heap, status, call, ncalls, gst, lst, mst, fst, sst>>

\* lines 48-51
KernelMallocStruct ==
    /\ kst.pc = "malloc_kernel"
    /\ \E ok \in BOOLEAN :
         kst' = IF ok THEN [kst EXCEPT !.pc = "malloc_values", !.kernel = "live"]
                ELSE [kst EXCEPT !.pc = "returned", !.ret = "NULL"]
    /\ UNCHANGED <<image, heap, status, call, ncalls, gst, lst, mst, fst, sst>>

\* lines 52-59
KernelMallocValues ==
    /\ kst.pc = "malloc_values"
    /\ \E ok \in BOOLEAN :
         kst' = IF ok
                THEN [kst EXCEPT !.pc = "fill", !.i = -kst.radius,
                                 !.values = Filled(kst.size, Indet),
                                 !.sum = FZero(0)]
                ELSE [kst EXCEPT !.pc = "returned", !.kernel = "freed",
                                 !.ret = "NULL"]
    /\ UNCHANGED <<image, heap, status, call, ncalls, gst, lst, mst, fst, sst>>

\* lines 60-66: one iteration of the generation loop
KernelFillStep ==
    /\ kst.pc = "fill"
    /\ kst' = [kst EXCEPT
                 !.values[kst.i + kst.radius + 1] = KernelVal(kst.i, kst.sigma),
                 !.sum = FAdd(@, KernelVal(kst.i, kst.sigma)),
                 !.i = IF kst.i + 1 <= kst.radius THEN kst.i + 1 ELSE 0,
                 !.pc = IF kst.i + 1 <= kst.radius THEN "fill" ELSE "normalise"]
    /\ UNCHANGED <<image, heap, status, call, ncalls, gst, lst, mst, fst, sst>>

\* lines 69-74: one iteration of the normalisation loop
KernelNormaliseStep ==
    /\ kst.pc = "normalise"
    /\ kst' = [kst EXCEPT
                 !.values[kst.i + 1] = FDiv(@, kst.sum),
                 !.i = kst.i + 1,
                 !.pc = IF kst.i + 1 < kst.size THEN "normalise" ELSE "returned",
                 !.ret = IF kst.i + 1 < kst.size THEN @ ELSE "kernel"]
    /\ UNCHANGED <<image, heap, status, call, ncalls, gst, lst, mst, fst, sst>>

NextKernel ==
    \/ KernelEnter
    \/ KernelMallocStruct
    \/ KernelMallocValues
    \/ KernelFillStep
    \/ KernelNormaliseStep

SpecKernel == InitKernel /\ [][NextKernel]_vars

---------------------------------------------------------------------------
(* Properties of generate_gaussian_kernel, checked under SpecKernel        *)

\* ceil(3 * sigma) of the exact product, for a finite sigma > 0
CeilOfThreeSigma(sigma) ==
    IF sigma.e >= 0 THEN 3 * sigma.m * (2 ^ sigma.e)
    ELSE IF -sigma.e > 30 THEN 1
    ELSE (3 * sigma.m + 2 ^ (-sigma.e) - 1) \div (2 ^ (-sigma.e))

\* floor(v * 2^28) of a weight 0 <= v <= 1
WeightFixed(v) ==
    IF v.e + 28 >= 0 THEN v.m * (2 ^ (v.e + 28))
    ELSE IF -(v.e + 28) > 30 THEN 0
    ELSE v.m \div (2 ^ (-(v.e + 28)))

RECURSIVE WeightSumFixed(_, _)
WeightSumFixed(values, n) ==
    IF n = 0 THEN 0 ELSE WeightFixed(values[n]) + WeightSumFixed(values, n - 1)

\* the weights are numbers and their sum is within 1e-4 of 1: in units of
\* 2^-28, 1 is 268435456 and 1e-4 is 26843.5; each weight is cut by less
\* than one unit
SumIsOne(values) ==
    /\ \A j \in 1..Len(values) : values[j].k = "fin" /\ values[j].s = 0
    /\ WeightSumFixed(values, Len(values)) <= 268435456 + 26843
    /\ WeightSumFixed(values, Len(values)) >= 268435456 - 26843 - Len(values)

\* C6: for any sigma > 0 the kernel returned has radius ceil(3 * sigma) and
\* 2 * radius + 1 weights, which sum to 1 within 1e-4 and are symmetric:
\* values[i] == values[2 * radius - i] for 0 <= i <= 2 * radius.
C6_KernelNormalisedSymmetric ==
    (kst.pc = "returned" /\ kst.ret = "kernel") =>
        /\ kst.radius = CeilOfThreeSigma(kst.sigma)
        /\ Len(kst.values) = 2 * kst.radius + 1
        /\ SumIsOne(kst.values)
        /\ \A i \in 0..(2 * kst.radius) :
              FEq(kst.values[i + 1], kst.values[2 * kst.radius - i + 1])

\* the statement-by-statement run ends with the kernel of the operator
KernelStepsAgree ==
    (kst.pc = "returned" /\ kst.ret = "kernel") =>
        /\ kst.values = generate_gaussian_kernel(kst.sigma).values
        /\ kst.radius = generate_gaussian_kernel(kst.sigma).radius

\* the kernels of the sigmas other than 1e-23f and 0.33333334f are as C6
\* says
KernelSoundElsewhere ==
    (kst.pc = "returned" /\ kst.ret = "kernel"
     /\ kst.sigma \notin {FromBits(0, 423718298), FromBits(0, 1051372203)}) =>
        C6_KernelNormalisedSymmetric

\* the kernel of 0.33333334f has radius 1, ceil(3 * sigma) being 2, and
\* is otherwise as C6 says
KernelOfOneThird ==
    (kst.pc = "returned" /\ kst.ret = "kernel"
     /\ kst.sigma = FromBits(0, 1051372203)) =>
        /\ kst.radius = 1 /\ CeilOfThreeSigma(kst.sigma) = 2
        /\ SumIsOne(kst.values)
        /\ FEq(kst.values[1], kst.values[3])

---------------------------------------------------------------------------
(* The two passes of ipl_gaussian_filter (lines 197-216), output byte by   *)
(* output byte.  gst.mem holds the two buffers under the names "image"     *)
(* (image->data) and "tmp" (tmp_data); a pass reads the buffer it was      *)
(* handed as input_data as it is at that moment.                           *)

\* line 209: horizontal_convolution(image->data, tmp_data, ...)
HorizontalArgs == [input_data |-> "image", output_data |-> "tmp"]

\* line 211: vertical_convolution(tmp_data, image->data, ...)
VerticalArgs == [input_data |-> VerticalSource("image", "tmp"),
                 output_data |-> "image"]

InitGauss ==
    /\ \E width \in 1..MaxW, height \in 1..MaxH,
          channels \in LoadableChannels, p \in 1..3 :
         gst = [pc |-> "entry", width |-> width, height |-> height,
                channels |-> channels, sigma |-> Sigma_0_5,
                original |-> PaintedData(p, width, height, channels),
                mem |-> [image |-> PaintedData(p, width, height, channels),
                         tmp |-> <<>>],
                kernel |-> NULL, args |-> NULL, n |-> 0,
                written |-> {}, reads |-> {}, before |-> {}, write |-> <<>>,
                pass |-> "none", tmp_written |-> {}]
    /\ image = Idle /\ heap = <<>> /\ status = "NONE" /\ call = NoCall
    /\ ncalls = 0 /\ kst = Idle /\ lst = Idle /\ mst = Idle /\ fst = Idle /\ sst = Idle

GaussSize == gst.height * gst.width * gst.channels

\* lines 192-206, both allocations succeeding: the kernel and tmp_data
GaussAllocate ==
    /\ gst.pc = "entry"
    /\ gst' = [gst EXCEPT !.pc = "horizontal",
                          !.kernel = generate_gaussian_kernel(gst.sigma),
                          !.mem.tmp = Filled(GaussSize, Indet),
                          !.args = HorizontalArgs, !.n = 0, !.written = {}]
    /\ UNCHANGED <<image, heap, status, call, ncalls, kst, lst, mst, fst, sst>>

\* the C indices one output byte of a pass reads: lines 106-115, 147-156
PassReads(pass, k) ==
    {IF pass = "horizontal"
     THEN HPixelIdx(RowOf(k, gst.width, gst.channels),
                    ColOf(k, gst.width, gst.channels),
                    ChanOf(k, gst.channels), offset, gst.width, gst.channels)
     ELSE VPixelIdx(RowOf(k, gst.width, gst.channels),
                    ColOf(k, gst.width, gst.channels),
                    ChanOf(k, gst.channels), offset, gst.width, gst.height,
                    gst.channels) :
     offset \in (-gst.kernel.radius)..gst.kernel.radius}

\* the byte a pass computes for C output index k from the input buffer
PassByte(pass, input_data, k) ==
    IF pass = "horizontal"
    THEN HConvAt(input_data, RowOf(k, gst.width, gst.channels),
                 ColOf(k, gst.width, gst.channels), ChanOf(k, gst.channels),
                 gst.channels, gst.width, gst.kernel)
    ELSE VConvAt(input_data, RowOf(k, gst.width, gst.channels),
                 ColOf(k, gst.width, gst.channels), ChanOf(k, gst.channels),
                 gst.channels, gst.width, gst.height, gst.kernel)

\* one iteration of the channel loop of the pass in progress; after the
\* last one the next statement of ipl_gaussian_filter is reached
PassStep(pass, next_pc, next_args) ==
    /\ gst.pc = pass
    /\ gst' = [gst EXCEPT
                 !.mem[gst.args.output_data][gst.n + 1] =
                     PassByte(pass, gst.mem[gst.args.input_data], gst.n),
                 !.reads = {<<gst.args.input_data, c>> : c \in PassReads(pass, gst.n)},
                 !.before = gst.written,
                 !.write = <<gst.args.output_data, gst.n>>,
                 !.pass = pass,
                 !.tmp_written = IF gst.args.output_data = "tmp"
                                 THEN @ \cup {gst.n} ELSE @,
                 !.written = IF gst.n + 1 < GaussSize
                             THEN @ \cup {<<gst.args.output_data, gst.n>>}
                             ELSE {},
                 !.n = IF gst.n + 1 < GaussSize THEN gst.n + 1 ELSE 0,
                 !.pc = IF gst.n + 1 < GaussSize THEN pass ELSE next_pc,
                 !.args = IF gst.n + 1 < GaussSize THEN @ ELSE next_args]
    /\ UNCHANGED <<image, heap, status, call, ncalls, kst, lst, mst, fst, sst>>

\* lines 96-127 called at line 209
HorizontalStep == PassStep("horizontal", "vertical", VerticalArgs)

\* lines 137-168 called at line 211
VerticalStep == PassStep("vertical", "release", NULL)

\* lines 213-216
GaussRelease ==
    /\ gst.pc = "release"
    /\ gst' = [gst EXCEPT !.pc = "returned", !.kernel = NULL, !.mem.tmp = <<>>]
    /\ UNCHANGED <<image, heap, status, call, ncalls, kst, lst, mst, fst, sst>>

NextGauss == GaussAllocate \/ HorizontalStep \/ VerticalStep \/ GaussRelease

SpecGauss == InitGauss /\ [][NextGauss]_vars

---------------------------------------------------------------------------
(* Properties of the two passes, checked under SpecGauss                   *)

\* the byte by byte run ends with the image of the two operators
GaussStepsAgree ==
    gst.pc = "returned" =>
        gst.mem.image =
            vertical_convolution(
                horizontal_convolution(gst.original, gst.channels, gst.width,
                                       gst.height,
                                       generate_gaussian_kernel(gst.sigma)),
                gst.channels, gst.width, gst.height,
                generate_gaussian_kernel(gst.sigma))

\* C7: the horizontal pass reads only the image data and writes only the
\* scratch buffer; the vertical pass starts only when every byte of the
\* scratch buffer has been written, reads only the scratch buffer and
\* writes only the image data; and no output byte of a pass is computed
\* from a byte that pass has already written.
C7_PassesNeverAlias ==
    gst.pc # "off" =>
        /\ gst.pass = "horizontal" =>
              /\ \A r \in gst.reads : r[1] = "image"
              /\ gst.write[1] = "tmp"
        /\ gst.pass = "vertical" =>
              /\ \A r \in gst.reads : r[1] = "tmp"
              /\ gst.write[1] = "image"
        /\ gst.pc = "vertical" => gst.tmp_written = 0..(GaussSize - 1)
        /\ gst.reads \cap gst.before = {}
        /\ gst.write \notin gst.before

\* the vertical pass of a 2 x 2 image is under way: it has written bytes
\* of the image data already and its last output byte was computed from
\* two different bytes of the scratch buffer
C7_Witness ==
    /\ gst.pc = "vertical" /\ gst.pass = "vertical"
    /\ gst.width = 2 /\ gst.height = 2
    /\ gst.before # {}
    /\ Cardinality(gst.reads) = 2
    /\ gst.mem.image # gst.original

---------------------------------------------------------------------------
(* Properties of convert_to_one_channel, checked under SpecLuma            *)

LumaPixels == 1..(lst.width * lst.height)
LumaR(i) == lst.input[(i - 1) * lst.channels_in + 1]
LumaG(i) == lst.input[(i - 1) * lst.channels_in + 2]
LumaB(i) == lst.input[(i - 1) * lst.channels_in + 3]

\* 1000 * (0.299 R + 0.587 G + 0.114 B) of pixel i, exactly; at most 255000
LumaThousandths(i) == 299 * LumaR(i) + 587 * LumaG(i) + 114 * LumaB(i)

\* the exact luma of pixel i lies half way between two integers
LumaTie(i) == LumaThousandths(i) % 1000 = 500

\* C8: with channels_in = 1 the output has width * height bytes and each
\* equals the input byte at the same place.
C8_OneChannelIsCopied ==
    (lst.pc = "luma" /\ lst.done /\ lst.channels_in = 1) =>
        /\ Len(lst.output) = lst.width * lst.height
        /\ \A i \in LumaPixels : lst.output[i] = lst.input[i]

\* a 2 x 2 one-channel input with two different bytes has been converted
C8_Witness ==
    /\ lst.pc = "luma" /\ lst.done /\ lst.channels_in = 1
    /\ lst.width = 2 /\ lst.height = 2
    /\ lst.input[1] # lst.input[2]
    /\ lst.output[4] = lst.input[4]

\* C9 as amended: with channels_in 3 or 4, output byte i is the exact value
\* 0.299 R + 0.587 G + 0.114 B rounded to the nearest integer whenever that
\* value is not half way between two integers; when it is, the byte is one
\* of the two integers next to it.
C9_LumaRoundedOffTies ==
    (lst.pc = "luma" /\ lst.done /\ lst.channels_in \in {3, 4}) =>
        /\ Len(lst.output) = lst.width * lst.height
        /\ \A i \in LumaPixels :
            IF LumaTie(i)
            THEN lst.output[i] \in {LumaThousandths(i) \div 1000,
                                   LumaThousandths(i) \div 1000 + 1}
            ELSE lst.output[i] = (LumaThousandths(i) + 500) \div 1000

\* a converted colour image holding a pixel whose exact luma is a tie and
\* came out as the lower integer, and a pixel whose luma is no tie and was
\* rounded up
C9_Witness ==
    /\ lst.pc = "luma" /\ lst.done /\ lst.channels_in = 3
    /\ \E i \in LumaPixels :
        LumaTie(i) /\ lst.output[i] = LumaThousandths(i) \div 1000
    /\ \E i \in LumaPixels :
        /\ LumaThousandths(i) % 1000 > 500
        /\ lst.output[i] = LumaThousandths(i) \div 1000 + 1

\* round to nearest, ties away from zero (C's roundf) and ties to even
RoundHalfUp(thousandths) == (thousandths + 500) \div 1000
RoundHalfEven(thousandths) ==
    IF thousandths % 1000 = 500 /\ (thousandths \div 1000) % 2 = 0
    THEN thousandths \div 1000
    ELSE (thousandths + 500) \div 1000

\* C9 as stated: every output byte is round(0.299 R + 0.587 G + 0.114 B) of
\* the exact value (the clamp to [0, 255] changes nothing: the value is at
\* most 255), with round read either as ties-away or as ties-to-even.
C9_LumaRoundedExactly ==
    (lst.pc = "luma" /\ lst.done /\ lst.channels_in \in {3, 4}) =>
        \/ \A i \in LumaPixels :
              lst.output[i] = RoundHalfUp(LumaThousandths(i))
        \/ \A i \in LumaPixels :
              lst.output[i] = RoundHalfEven(LumaThousandths(i))

\* C10: two 4-channel inputs of the same dimensions that agree on every R,
\* G and B byte give the same output, whatever their alpha bytes are.
C10_AlphaHasNoInfluence ==
    (/\ lst.pc = "luma" /\ lst.done /\ lst.twin_done /\ lst.channels_in = 4
     /\ Len(lst.input) = Len(lst.twin)
     /\ \A n \in 1..Len(lst.input) : n % 4 # 0 => lst.input[n] = lst.twin[n])
    => lst.output = lst.twin_output

\* both of two 4-channel inputs that differ in the alpha byte of every
\* pixel have been converted, and the outputs are not one flat colour
C10_Witness ==
    /\ lst.pc = "luma" /\ lst.done /\ lst.twin_done /\ lst.channels_in = 4
    /\ lst.width * lst.height >= 2
    /\ \A i \in LumaPixels : lst.input[4 * i] # lst.twin[4 * i]
    /\ \A i \in LumaPixels : lst.input[4 * i - 1] = lst.twin[4 * i - 1]
    /\ lst.output[1] # lst.output[2]
    /\ lst.output = lst.twin_output

---------------------------------------------------------------------------
(* Properties of the channel-reducing calls, checked under Spec            *)

\* the call allocated the block at address a
AllocatedByCall(a) == \E k \in 1..Len(call.allocs) : call.allocs[k][3] = a

\* the call freed the block at address a
FreedByCall(a) == \E k \in 1..Len(call.frees) : call.frees[k] = a

\* C11: after a successful ipl_grayscale or ipl_sobel_edge_detection on an
\* image with 1, 3 or 4 channels, channels is 1, data is a buffer of
\* width * height bytes that the call allocated, the buffer data pointed to
\* before has been freed, and width and height are what they were.
C11_ReducerReplacesBuffer ==
    (/\ call.op \in {"grayscale", "sobel"} /\ status = "SUCCESS"
     /\ call.pre.channels \in {1, 3, 4})
    => /\ image.channels = 1
       /\ image.width = call.pre.width /\ image.height = call.pre.height
       /\ image.data # NULL /\ image.data # call.pre.data
       /\ AllocatedByCall(image.data) /\ image.data \in DOMAIN heap
       /\ Len(heap[image.data]) = image.width * image.height
       /\ call.pre.data # NULL /\ FreedByCall(call.pre.data)
       /\ call.pre.data \notin DOMAIN heap
       /\ ~call.bad

\* ipl_grayscale has succeeded, as a second call, on a 2 x 2 image of 4
\* channels
C11_Witness ==
    /\ ncalls = 2 /\ call.op = "grayscale" /\ status = "SUCCESS"
    /\ call.pre.channels = 4 /\ call.pre.width = 2 /\ call.pre.height = 2
    /\ Len(call.preData) = 16 /\ Len(heap[image.data]) = 4
    /\ FreedByCall(call.pre.data)

---------------------------------------------------------------------------
(* The channel-reducing calls on an Image the caller filled in itself: the *)
(* structure is public (imageproc.h:20-27) and its channels field, an enum, *)
(* holds any int, so the count need not have passed ipl_load_image.        *)

\* bounds of the images
ReduceMaxW == 4
ReduceMaxH == 4

\* the byte of channel c of pixel (x, y): one flat colour; 77 in every
\* channel; 0 left of column
\* s and 255 from it on; a checkerboard of two colours; values that differ
\* from pixel to pixel
CallerByte(kind, s, x, y, c) ==
    CASE kind = "flat" -> Palette[2][c + 1]
      [] kind = "grey" -> 77
      [] kind = "step" -> IF x < s THEN 0 ELSE 255
      [] kind = "checker" -> Palette[PatternColour(3, x, y)][c + 1]
      [] OTHER -> (100 + 7 * x + 11 * y * y + 13 * c + 5 * x * y) % 256

CallerData(kind, s, width, height, channels) ==
    [n \in 1..(width * height * channels) |->
        LET k == (n - 1) \div channels
        IN  CallerByte(kind, s, k % width, k \div width, (n - 1) % channels)]

InitReduce ==
    /\ \E width \in 1..ReduceMaxW, height \in 1..ReduceMaxH, channels \in 1..4,
          kind \in {"flat", "step", "checker", "varied"}, s \in 1..ReduceMaxW :
        /\ IF kind = "step" THEN s < width \/ s = 1 ELSE s = 1
        /\ image = [format |-> "PNG", width |-> width, height |-> height,
                    channels |-> channels, data |-> 1]
        /\ heap = Store(<<>>, 1, CallerData(kind, s, width, height, channels))
    /\ status = "NONE"
    /\ call = NoCall
    /\ ncalls = 0
    /\ kst = Idle /\ gst = Idle /\ lst = Idle /\ mst = Idle /\ fst = Idle /\ sst = Idle

NextReduce == Sobel \/ Grayscale

SpecReduce == InitReduce /\ [][NextReduce]_vars

\* C12: ipl_grayscale or ipl_sobel_edge_detection on an image that has data
\* and a channel count other than 1, 3 and 4 returns UNSUPPORTED_FORMAT and
\* leaves the structure, the data pointer and the bytes as they were (calls
\* in which an allocation failed are left out).
C12_UnsupportedChannelsRejected ==
    (/\ call.op \in {"grayscale", "sobel"} /\ ~call.null
     /\ call.pre.data # NULL /\ call.pre.channels \notin {1, 3, 4}
     /\ ~AllocationFailed)
    => /\ status = "UNSUPPORTED_FORMAT"
       /\ ImageUntouched

\* what the code does instead: it returns SUCCESS and installs a buffer in
\* which convert_to_one_channel wrote nothing (every byte of the grey
\* buffer is still what malloc left there)
ReducerIgnoresChannelCount ==
    (/\ call.op = "grayscale" /\ ~call.null /\ call.pre.channels = 2
     /\ ~AllocationFailed)
    => /\ status = "SUCCESS" /\ ~call.rd
       /\ image.channels = 1 /\ image.data # call.pre.data
       /\ \A n \in 1..Len(heap[image.data]) : heap[image.data][n] \in JunkBytes

---------------------------------------------------------------------------
(* Properties of the gradient map, checked under SpecReduce                *)

\* ipl_sobel_edge_detection has succeeded on an image of 1, 3 or 4 channels
SobelDone ==
    /\ call.op = "sobel" /\ status = "SUCCESS"
    /\ call.pre.channels \in {1, 3, 4}

\* the luma of the image the call was given
SobelLuma ==
    convert_to_one_channel(call.preData,
        Filled(call.pre.width * call.pre.height, 0),
        call.pre.width, call.pre.height, call.pre.channels)

\* the luma at (x, y), an index out of range replaced by the nearest valid
GreyAt(x, y) ==
    SobelLuma[clamp(y, 0, image.height - 1) * image.width
              + clamp(x, 0, image.width - 1) + 1]

\* [-1, 0, 1] along x smoothed by [1, 2, 1] along y, and the transpose
SobelGx(x, y) ==
    (GreyAt(x + 1, y - 1) - GreyAt(x - 1, y - 1))
    + 2 * (GreyAt(x + 1, y) - GreyAt(x - 1, y))
    + (GreyAt(x + 1, y + 1) - GreyAt(x - 1, y + 1))

SobelGy(x, y) ==
    (GreyAt(x - 1, y + 1) - GreyAt(x - 1, y - 1))
    + 2 * (GreyAt(x, y + 1) - GreyAt(x, y - 1))
    + (GreyAt(x + 1, y + 1) - GreyAt(x + 1, y - 1))

\* the byte of the gradient map at (x, y)
GradientAt(x, y) == heap[image.data][y * image.width + x + 1]

\* C13: after ipl_sobel_edge_detection every pixel (x, y), 0 <= x < width,
\* 0 <= y < height, of the gradient map is to_uchar(sqrt(Gx^2 + Gy^2)) for
\* the Sobel Gx and Gy of the luma with clamped indices.
C13_EveryPixelIsSobel ==
    SobelDone =>
        \A x \in 0..(image.width - 1), y \in 0..(image.height - 1) :
            GradientAt(x, y) = SobelMagnitude(SobelGx(x, y), SobelGy(x, y))

\* what the code does: rows 1 .. height - 2 are as C13 says in every
\* column, and rows 0 and height - 1 keep calloc's zeros
SobelInnerRowsOnly ==
    SobelDone =>
        \A x \in 0..(image.width - 1), y \in 0..(image.height - 1) :
            GradientAt(x, y) =
                IF 0 < y /\ y < image.height - 1
                THEN SobelMagnitude(SobelGx(x, y), SobelGy(x, y))
                ELSE 0

\* an inner row holds a magnitude strictly between 0 and 255
SobelInnerRowSeen ==
    /\ SobelDone /\ image.height = 4 /\ image.width = 3
    /\ call.pre.channels = 3
    /\ GradientAt(1, 1) \in 1..254 /\ GradientAt(0, 2) = 255
    /\ GradientAt(1, 0) = 0 /\ GradientAt(1, 3) = 0

\* every pixel of the image the call was given has the colour of the first
UniformColour ==
    \A n \in 1..Len(call.preData) :
        call.preData[n] = call.preData[((n - 1) % call.pre.channels) + 1]

\* C14: ipl_sobel_edge_detection on a uniform-colour image of 1, 3 or 4
\* channels, whatever its width and height, yields a gradient map whose
\* every byte is 0.
C14_FlatImageGivesZeroMap ==
    (SobelDone /\ UniformColour) =>
        \A n \in 1..Len(heap[image.data]) : heap[image.data][n] = 0

\* ipl_sobel_edge_detection has succeeded on a flat 3 x 4 image of 3
\* channels whose luma is not 0: rows 1 and 2 were computed
C14_Witness ==
    /\ SobelDone /\ UniformColour
    /\ call.pre.channels = 3 /\ image.width = 3 /\ image.height = 4
    /\ SobelLuma[1] > 0
    /\ Len(heap[image.data]) = 12

\* the image the call was given has one channel, 0 in every column left of
\* column s and 255 from column s on
StepEdgeAt(s) ==
    /\ call.pre.channels = 1
    /\ \A n \in 1..Len(call.preData) :
        call.preData[n] = IF (n - 1) % call.pre.width < s THEN 0 ELSE 255

\* how far column x is from the step between columns s - 1 and s
StepDistance(x, s) == IF x < s THEN s - x ELSE x - s + 1

\* C15: ipl_sobel_edge_detection on a single-channel vertical step edge
\* (0 left of the step, 255 right of it) yields, in every row, 255 at the
\* interior columns next to the step and 0 at every column at distance
\* >= 2 from it.
C15_StepEdgeInEveryRow ==
    \A s \in 1..(image.width - 1) :
        (SobelDone /\ StepEdgeAt(s)) =>
            \A x \in 0..(image.width - 1), y \in 0..(image.height - 1) :
                /\ (StepDistance(x, s) = 1 /\ 0 < x /\ x < image.width - 1)
                        => GradientAt(x, y) = 255
                /\ StepDistance(x, s) >= 2 => GradientAt(x, y) = 0

\* what the code does: the response is there in rows 1 .. height - 2 only,
\* at both columns next to the step, and rows 0 and height - 1 are all 0
StepEdgeInInnerRows ==
    \A s \in 1..(image.width - 1) :
        (SobelDone /\ StepEdgeAt(s)) =>
            \A x \in 0..(image.width - 1), y \in 0..(image.height - 1) :
                GradientAt(x, y) =
                    IF StepDistance(x, s) = 1 /\ 0 < y /\ y < image.height - 1
                    THEN 255 ELSE 0

\* a step edge in a 4 x 4 image has been through the call
StepEdgeSeen ==
    /\ SobelDone /\ StepEdgeAt(2) /\ image.width = 4 /\ image.height = 4
    /\ GradientAt(1, 1) = 255 /\ GradientAt(2, 2) = 255
    /\ GradientAt(1, 0) = 0 /\ GradientAt(0, 1) = 0

---------------------------------------------------------------------------
(* ipl_median_filter statement by statement (imageproc_A.c:22-107).  Each  *)
(* of the two "#pragma omp parallel for" loops hands its iterations, one   *)
(* per channel, to workers that run in any interleaving, and ends in the   *)
(* barrier OpenMP puts after the loop.  mst holds the locals; padded,      *)
(* histogram, hpos_x and hpos_y are declared outside the loops and shared  *)
(* by the workers.  pown, sown and hown remember which worker wrote a      *)
(* byte of the canvas, a byte of the image and a histogram row last (-1:   *)
(* none), and clash whether a worker wrote what another had written.       *)

\* bounds of the calls: image size, radius, and the canvas pixels of an
\* image of more than one channel
MedianMaxW == 3
MedianMaxH == 2
MedianMaxRadius == 2
MedianMaxCanvas == 12

\* line 60: the canvas index written by the worker of channel c
PadIdx(offset_pad, j, chan, c) == offset_pad + j * chan + c

\* lines 77, 90: the row of histogram[4][256] the worker of channel c uses
HistRow_shared(c) == 0

HistRow(c) == c

InitMedian ==
    /\ \E width \in 1..MedianMaxW, height \in 1..MedianMaxH,
          chan \in LoadableChannels, radius \in 0..MedianMaxRadius,
          kind \in {"flat", "grey", "checker", "varied"}, fail \in BOOLEAN :
        /\ chan > 1 =>
             (width + radius * 2) * (height + radius * 2) <= MedianMaxCanvas
        /\ mst = [pc |-> "entry", status |-> "NONE", fail |-> fail,
                  width |-> width, height |-> height, chan |-> chan,
                  radius |-> radius,
                  original |-> CallerData(kind, 1, width, height, chan),
                  source |-> CallerData(kind, 1, width, height, chan),
                  padded |-> <<>>, freed |-> FALSE,
                  at |-> [c \in 0..(chan - 1) |-> 0],
                  histogram |-> [c \in 0..3 |-> Indet],
                  hpos_x |-> [c \in 0..3 |-> Indet],
                  hpos_y |-> [c \in 0..3 |-> Indet],
                  pown |-> <<>>,
                  sown |-> [n \in 1..(width * height * chan) |-> -1],
                  hown |-> [c \in 0..3 |-> -1],
                  clash |-> FALSE]
    /\ image = Idle /\ heap = <<>> /\ status = "NONE" /\ call = NoCall
    /\ ncalls = 0 /\ kst = Idle /\ gst = Idle /\ lst = Idle /\ fst = Idle /\ sst = Idle

\* lines 33-36: the canvas
MedianWPad == mst.width + mst.radius * 2
MedianHPad == mst.height + mst.radius * 2

\* lines 24-45: the locals and the malloc of the canvas
MedianAllocate ==
    /\ mst.pc = "entry"
    /\ mst' = IF mst.fail
              THEN [mst EXCEPT !.pc = "returned", !.status = "OUT_OF_MEMORY"]
              ELSE [mst EXCEPT !.pc = "pad",
                      !.padded = Filled(MedianWPad * MedianHPad * mst.chan, Indet),
                      !.pown = Filled(MedianWPad * MedianHPad * mst.chan, -1)]
    /\ UNCHANGED <<image, heap, status, call, ncalls, kst, gst, lst, fst, sst>>

\* lines 52-62: one iteration of the j loop, run by the worker of channel c;
\* mst.at[c] counts the iterations it has run
PadStep(c) ==
    /\ mst.pc = "pad" /\ mst.at[c] < MedianWPad * MedianHPad
    /\ LET i == mst.at[c] \div MedianWPad
           j == mst.at[c] % MedianWPad
           i_src == clamp(i - mst.radius, 0, mst.height - 1)
           j_src == clamp(j - mst.radius, 0, mst.width - 1)
           cell == PadIdx(i * (MedianWPad * mst.chan), j, mst.chan, c) + 1
       IN  mst' = [mst EXCEPT
                !.padded[cell] =
                    mst.source[i_src * (mst.width * mst.chan) + j_src * mst.chan + c + 1],
                !.clash = @ \/ mst.pown[cell] \notin {-1, c},
                !.pown[cell] = c,
                !.at[c] = @ + 1]
    /\ UNCHANGED <<image, heap, status, call, ncalls, kst, gst, lst, fst, sst>>

\* line 63: the barrier that ends the first parallel loop
PadJoin ==
    /\ mst.pc = "pad"
    /\ \A c \in DOMAIN mst.at : mst.at[c] = MedianWPad * MedianHPad
    /\ mst' = [mst EXCEPT !.pc = "filter",
                          !.at = [c \in DOMAIN mst.at |-> 0]]
    /\ UNCHANGED <<image, heap, status, call, ncalls, kst, gst, lst, fst, sst>>

\* line 90: hist_set at the start of row i, by the worker of channel c
FilterSet(c, i) ==
    LET h == hist_set(mst.padded, i, MedianWPad * mst.chan, 0, mst.chan, c,
                      mst.radius * 2 + 1)
    IN  [mst EXCEPT !.histogram[HistRow(c)] = h.hist,
                    !.hpos_y[c] = h.hy,
                    !.hpos_x[c] = h.hx,
                    !.clash = @ \/ mst.hown[HistRow(c)] \notin {-1, c},
                    !.hown[HistRow(c)] = c,
                    !.at[c] = @ + 1]

\* lines 95-97, 99: the median of column j of row i is written, and the
\* histogram slides unless j is the last column
FilterEmit(c, i, j) ==
    LET win_size == mst.radius * 2 + 1
        cell == i * (mst.width * mst.chan) + j * mst.chan + c + 1
        h == IF j < mst.width - 1
             THEN hist_move(mst.histogram[HistRow(c)], mst.padded, mst.hpos_y[c],
                            MedianWPad * mst.chan, mst.hpos_x[c], mst.chan, c,
                            win_size)
             ELSE [hist |-> mst.histogram[HistRow(c)], hx |-> mst.hpos_x[c]]
    IN  [mst EXCEPT !.source[cell] =
                        get_median(mst.histogram[HistRow(c)], win_size * win_size),
                    !.clash = @ \/ mst.sown[cell] \notin {-1, c}
                                \/ mst.hown[HistRow(c)] # c,
                    !.sown[cell] = c,
                    !.histogram[HistRow(c)] = h.hist,
                    !.hpos_x[c] = h.hx,
                    !.at[c] = @ + 1]

\* lines 85-101: the next statement of the worker of channel c; a row is
\* one hist_set and width emissions
FilterStep(c) ==
    /\ mst.pc = "filter" /\ mst.at[c] < mst.height * (mst.width + 1)
    /\ mst' = IF mst.at[c] % (mst.width + 1) = 0
              THEN FilterSet(c, mst.at[c] \div (mst.width + 1))
              ELSE FilterEmit(c, mst.at[c] \div (mst.width + 1),
                              (mst.at[c] % (mst.width + 1)) - 1)
    /\ UNCHANGED <<image, heap, status, call, ncalls, kst, gst, lst, fst, sst>>

\* lines 101-106: the barrier, free(padded), return SUCCESS
MedianReturn ==
    /\ mst.pc = "filter"
    /\ \A c \in DOMAIN mst.at : mst.at[c] = mst.height * (mst.width + 1)
    /\ mst' = [mst EXCEPT !.pc = "returned", !.status = "SUCCESS",
                          !.padded = <<>>, !.freed = TRUE]
    /\ UNCHANGED <<image, heap, status, call, ncalls, kst, gst, lst, fst, sst>>

NextMedian ==
    \/ MedianAllocate
    \/ \E c \in DOMAIN mst.at : PadStep(c)
    \/ PadJoin
    \/ \E c \in DOMAIN mst.at : FilterStep(c)
    \/ MedianReturn

SpecMedian == InitMedian /\ [][NextMedian]_vars

---------------------------------------------------------------------------
(* Properties of ipl_median_filter, checked under SpecMedian               *)

\* the call has returned SUCCESS
MedianDone == mst.pc = "returned" /\ mst.status = "SUCCESS"

\* the byte of channel c at (x, y) of the image the call was given, the
\* coordinates clamped into the image
OriginalAt(x, y, c) ==
    mst.original[(clamp(y, 0, mst.height - 1) * mst.width
                  + clamp(x, 0, mst.width - 1)) * mst.chan + c + 1]

\* how many of the (2r+1)^2 window positions around (x, y) hold a value of
\* channel c that is at most v
WindowCount(x, y, c, v) ==
    Cardinality({d \in (-mst.radius..mst.radius) \X (-mst.radius..mst.radius) :
                    OriginalAt(x + d[1], y + d[2], c) <= v})

\* C16: after ipl_median_filter with radius r >= 0, the byte at (x, y, c),
\* for every column x up to width - 1, is the value of rank floor(A/2)
\* (from 0, ascending) among the A = (2r+1)^2 original values of channel c
\* in the clamped window around (x, y): fewer than floor(A/2) + 1 window
\* values lie below it, and more than floor(A/2) are at most it.
C16_MedianIsWindowRank ==
    MedianDone =>
        \A x \in 0..(mst.width - 1), y \in 0..(mst.height - 1),
           c \in 0..(mst.chan - 1) :
            LET out == mst.source[(y * mst.width + x) * mst.chan + c + 1]
                half == ((mst.radius * 2 + 1) * (mst.radius * 2 + 1)) \div 2
            IN  /\ out \in 0..255
                /\ WindowCount(x, y, c, out - 1) <= half
                /\ WindowCount(x, y, c, out) > half

\* the call has returned from a 3 x 2 image with radius 1 in which the
\* first byte and that of the last column of the last row have changed
C16_Witness ==
    /\ MedianDone /\ mst.width = 3 /\ mst.height = 2 /\ mst.radius = 1
    /\ mst.source[1] # mst.original[1]
    /\ mst.source[6] # mst.original[6]

\* every byte of the image the call was given is the same value
ConstantImage == \A n \in 1..Len(mst.original) : mst.original[n] = mst.original[1]

\* the call returns SUCCESS, or OUT_OF_MEMORY when the canvas cannot be
\* allocated
MedianStatusAsAllocated ==
    mst.pc = "returned" =>
        mst.status = IF mst.fail THEN "OUT_OF_MEMORY" ELSE "SUCCESS"

\* C17: ipl_median_filter with a radius >= 0 on an image whose every byte
\* is one value v leaves every byte v, at every moment of the call, and
\* returns SUCCESS (OUT_OF_MEMORY only if the canvas cannot be allocated).
C17_ConstantImageUnchanged ==
    ConstantImage => mst.source = mst.original /\ MedianStatusAsAllocated

\* the call has returned from a constant 2 x 2 image of 3 channels with
\* radius 0, having written all 12 bytes
C17_Witness ==
    /\ MedianDone /\ ConstantImage /\ mst.chan = 3 /\ mst.radius = 0
    /\ mst.width = 2 /\ mst.height = 2
    /\ \A n \in 1..12 : mst.sown[n] # -1

\* C18: ipl_median_filter with radius 0 leaves every byte of the image as
\* it was, at every moment of the call, and returns SUCCESS (OUT_OF_MEMORY
\* only if the canvas cannot be allocated).
C18_RadiusZeroIsIdentity ==
    mst.radius = 0 => mst.source = mst.original /\ MedianStatusAsAllocated

\* the call has returned from a 3 x 2 image of 3 channels with radius 0
\* whose bytes differ from pixel to pixel, having written all 18 bytes
C18_Witness ==
    /\ MedianDone /\ mst.radius = 0 /\ mst.chan = 3
    /\ mst.width = 3 /\ mst.height = 2
    /\ mst.original[1] # mst.original[4] /\ mst.original[4] # mst.original[7]
    /\ \A n \in 1..18 : mst.sown[n] # -1

\* the image after the canvas was built and the channels were filtered one
\* after the other
MedianSequential ==
    MedianPass(mst.original,
               PaddedCopy(mst.original, mst.width, mst.height, mst.chan,
                          mst.radius, MedianWPad * MedianHPad * mst.chan),
               mst.width, mst.height, mst.chan, mst.radius)

\* C19: in ipl_median_filter, under every interleaving of the channel
\* workers, no worker writes a byte of the canvas, a byte of the image or a
\* histogram row that another worker wrote; no worker of the filter loop
\* has started before every byte of the canvas was written; and the image
\* at the return is the one that filtering the channels one after the
\* other gives.
C19_WorkersShareNothing ==
    mst.pc # "off" =>
        /\ ~mst.clash
        /\ (\E c \in 0..3 : mst.hown[c] # -1) =>
               \A n \in 1..Len(mst.pown) : mst.pown[n] # -1
        /\ MedianDone => mst.source = MedianSequential

\* the three workers are at different places of the filter loop: that of
\* channel 0 has written its two bytes, that of channel 1 has not started,
\* that of channel 2 has filled its histogram row
C19_Witness ==
    /\ mst.pc = "filter" /\ mst.chan = 3 /\ mst.radius = 1 /\ mst.width = 2
    /\ mst.at[0] = 3 /\ mst.at[1] = 0 /\ mst.at[2] = 1
    /\ mst.sown[1] = 0 /\ mst.sown[4] = 0 /\ mst.sown[3] = -1
    /\ mst.hown[2] = 2 /\ mst.hown[1] = -1

---------------------------------------------------------------------------
(* input_output.c: ipl_load_image.  The decoder, stbi_load_from_file, is   *)
(* not part of the repository: it either fails (NULL) or returns a block   *)
(* of width * height * channels bytes with channels from 1 to 4, as its    *)
(* last argument 0 asks for the channels of the file.                      *)

\* what stbi_load_from_file may hand back
Decodings ==
    {[ok |-> FALSE, width |-> 0, height |-> 0, channels |-> 0]}
    \cup [ok : {TRUE}, width : 1..MaxW, height : 1..MaxH, channels : 1..4]

\* free_image_data without line 59: the pointer is left dangling
free_image_data_keeps_pointer(null, img, m) ==
    IF null \/ img.data = NULL THEN Outcome("INVALID_ARGUMENT", img, m)
    ELSE Outcome("SUCCESS", img, Free(m, img.data))

\* lines 53-62
free_image_data(null, img, m) ==
    IF null \/ img.data = NULL THEN Outcome("INVALID_ARGUMENT", img, m)
    ELSE Outcome("SUCCESS", [img EXCEPT !.data = NULL], Free(m, img.data))

\* lines 85-131.  file_name is NULL or not, exists says whether fopen
\* succeeds, decoded is what the decoder hands back; file is the state of
\* the FILE the call opened
ipl_load_image(file_name, null, img, hp, file_format, exists, decoded) ==
    Then(free_image_data(null, img, Entry(hp)),
    LAMBDA f :
        IF file_name = NULL \/ null
           \/ file_format \notin {"PNG", "JPEG", "UNKNOWN"}
        THEN [file |-> "unopened"] @@ Outcome("INVALID_ARGUMENT", f.image, f.m)
        ELSE IF file_format = "UNKNOWN"
        THEN [file |-> "unopened"] @@ Outcome("UNSUPPORTED_FORMAT", f.image, f.m)
        ELSE IF ~exists
        THEN [file |-> "unopened"] @@ Outcome("FILE_NOT_FOUND", f.image, f.m)
        ELSE IF ~decoded.ok
        THEN [file |-> "closed"] @@ Outcome("FILE_READ", f.image, f.m)
        ELSE
        Then(Malloc(f.m, "uchar", decoded.width * decoded.height * decoded.channels,
                    PaintedData(3, decoded.width, decoded.height, decoded.channels),
                    FALSE),
        LAMBDA m1 :
            IF decoded.channels \notin LoadableChannels
            THEN [file |-> "closed"]
                 @@ Outcome("UNSUPPORTED_FORMAT", f.image, Free(m1, m1.ret))
            ELSE [file |-> "closed"]
                 @@ Outcome("SUCCESS",
                            [format |-> file_format, width |-> decoded.width,
                             height |-> decoded.height,
                             channels |-> decoded.channels, data |-> m1.ret],
                            m1)))

\* main.c:107-108: a structure from malloc with data set to NULL; the other
\* fields hold what malloc left (0 or 2 stand for it)
InitLoad ==
    /\ \E junk \in {0, 2} :
        image = [format |-> "UNKNOWN", width |-> junk, height |-> junk,
                 channels |-> junk, data |-> NULL]
    /\ heap = <<>>
    /\ status = "NONE"
    /\ call = NoCall
    /\ ncalls = 0
    /\ fst = [pc |-> "io", file_name |-> NULL, exists |-> FALSE, file |-> "unopened",
              decoded |-> [ok |-> FALSE, width |-> 0, height |-> 0, channels |-> 0]]
    /\ kst = Idle /\ gst = Idle /\ lst = Idle /\ mst = Idle /\ sst = Idle

\* one call of ipl_load_image on the structure (or on a null pointer)
Load ==
    /\ ncalls < MaxCalls
    /\ \E file_name \in {NULL, 1}, null \in BOOLEAN,
          file_format \in {"PNG", "JPEG", "UNKNOWN", "other"},
          exists \in BOOLEAN, decoded \in Decodings :
        Then(ipl_load_image(file_name, null, image, heap, file_format, exists,
                            decoded),
        LAMBDA r :
            /\ image' = r.image
            /\ heap' = r.m.heap
            /\ status' = r.status
            /\ call' = [op |-> "load", null |-> null, arg |-> file_format,
                        pre |-> image,
                        preData |-> IF image.data = NULL THEN <<>>
                                    ELSE heap[image.data],
                        allocs |-> r.m.allocs, frees |-> r.m.frees,
                        bad |-> r.m.bad, rd |-> r.m.rd, wr |-> r.m.wr]
            /\ fst' = [pc |-> "io", file_name |-> file_name, exists |-> exists,
                       file |-> r.file, decoded |-> decoded])
    /\ ncalls' = ncalls + 1
    /\ UNCHANGED <<kst, gst, lst, mst, sst>>

NextLoad == Load

SpecLoad == InitLoad /\ [][NextLoad]_vars

\* the call reached the decoder and the decoder handed back an image
LoadDecoded ==
    /\ call.op = "load" /\ ~call.null /\ fst.file_name # NULL
    /\ call.arg \in {"PNG", "JPEG"} /\ fst.exists /\ fst.decoded.ok

\* the block the decoder handed back
DecodedBlock == call.allocs[Len(call.allocs)][3]

\* the decoded block is gone and the file closed, and data points to a
\* buffer only after SUCCESS, which comes with 1, 3 or 4 channels
LoadRejectsOrInstalls ==
    /\ (LoadDecoded /\ fst.decoded.channels \notin {1, 3, 4}) =>
           /\ status = "UNSUPPORTED_FORMAT"
           /\ FreedByCall(DecodedBlock) /\ DecodedBlock \notin DOMAIN heap
           /\ ~call.bad
           /\ fst.file = "closed"
    /\ (call.op = "load" /\ image.data # NULL /\ ~call.null) =>
           /\ status = "SUCCESS" /\ LoadDecoded
           /\ image.data = DecodedBlock /\ image.data \in DOMAIN heap
           /\ image.channels \in {1, 3, 4}
           /\ image.channels = fst.decoded.channels
           /\ Len(heap[image.data]) = image.width * image.height * image.channels

\* C20 as stated: ipl_load_image never leaves the structure with data and
\* a channel count outside {1, 3, 4}; when the decoder reports such a count
\* the call returns UNSUPPORTED_FORMAT, has freed the decoded block and
\* closed the file, and every field of the structure is as before the call;
\* data points to the decoded block only after SUCCESS.
C20_RejectedLoadAssignsNothing ==
    /\ LoadRejectsOrInstalls
    /\ (LoadDecoded /\ fst.decoded.channels \notin {1, 3, 4}) => image = call.pre

\* C20: ipl_load_image never leaves the structure with data and a channel
\* count outside {1, 3, 4}; when the decoder reports such a count the call
\* returns UNSUPPORTED_FORMAT, has freed the decoded block and closed the
\* file, and format, width, height and channels are as before the call;
\* data points to the decoded block only after SUCCESS, and after a
\* rejected load it is NULL, the buffer it pointed to before the call
\* having been freed.
C20_RejectedLoadClearsData ==
    /\ LoadRejectsOrInstalls
    /\ (LoadDecoded /\ fst.decoded.channels \notin {1, 3, 4}) =>
           /\ image = [call.pre EXCEPT !.data = NULL]
           /\ call.pre.data # NULL =>
                  FreedByCall(call.pre.data) /\ call.pre.data \notin DOMAIN heap

\* a second load, of a file the decoder reports 2 channels for, has been
\* rejected on a structure that held a 3-channel image
C20_Witness ==
    /\ ncalls = 2 /\ LoadDecoded /\ fst.decoded.channels = 2
    /\ status = "UNSUPPORTED_FORMAT"
    /\ call.pre.data # NULL /\ call.pre.channels = 3
    /\ image.data = NULL /\ image.channels = 3
    /\ heap = <<>>

---------------------------------------------------------------------------
(* main.c:107-161: ipl_load_image, one filter, ipl_save_image, on one      *)
(* Image structure; after the save, further calls of free_image_data and   *)
(* ipl_save_image on the same structure.  fst holds where the sequence is  *)
(* (pc), what is stored under the output file name (out: "absent", "old"   *)
(* for a file that was there before, "empty" once fopen truncated it,      *)
(* "partial", "written"), the FILE of the last save, whether remove() was  *)
(* called, and the status of the first save.                               *)

PipeMaxCalls == 5

\* the callback without lines 41-44: a short fwrite goes unnoticed
write_to_file_contextual_unflagged(ctx, full) ==
    IF ctx.io_error = 1 THEN ctx
    ELSE IF full THEN [ctx EXCEPT !.blocks = @ + 1]
    ELSE ctx

\* input_output.c:27-45, one callback: ctx is the WriteOperationContext
\* with the number of blocks that reached the file, full says whether
\* fwrite wrote the whole block
write_to_file_contextual(ctx, full) ==
    IF ctx.io_error = 1 THEN ctx
    ELSE IF full THEN [ctx EXCEPT !.blocks = @ + 1]
    ELSE [ctx EXCEPT !.io_error = 1]

\* lines 154-237.  out is what the file name holds before the call, opens
\* whether fopen succeeds, full1 and full2 what fwrite does with the two
\* blocks the encoder hands to the callback, stb_res what the encoder
\* returns.  The encoder reads the pixels before any path frees them; the
\* frees of lines 160, 169, 216, 226 and 234 are the one free_image_data
\* below.  remove() is taken to succeed on the closed file (its result is
\* not looked at, lines 218 and 228).
ipl_save_image(file_name, null, img, hp, file_format, out, opens, full1, full2, stb_res) ==
    IF file_name = NULL \/ null \/ img.data = NULL
       \/ file_format \notin {"PNG", "JPEG", "UNKNOWN"}
    THEN [out |-> out, file |-> "unopened", removed |-> FALSE]
         @@ Outcome("INVALID_ARGUMENT", img, Entry(hp))
    ELSE
    Then(free_image_data(FALSE, img, Entry(hp)),
    LAMBDA f :
        IF file_format = "UNKNOWN"
        THEN [out |-> out, file |-> "unopened", removed |-> FALSE]
             @@ Outcome("UNSUPPORTED_FORMAT", f.image, f.m)
        ELSE IF ~opens
        THEN [out |-> out, file |-> "unopened", removed |-> FALSE]
             @@ Outcome("FILE_NOT_FOUND", f.image, f.m)
        ELSE
        Then(write_to_file_contextual(
                 write_to_file_contextual([io_error |-> 0, blocks |-> 0], full1),
                 full2),
        LAMBDA op_ctx :
            IF op_ctx.io_error = 1
            THEN [out |-> "absent", file |-> "closed", removed |-> TRUE]
                 @@ Outcome("FILE_WRITE", f.image, f.m)
            ELSE IF stb_res = 0
            THEN [out |-> "absent", file |-> "closed", removed |-> TRUE]
                 @@ Outcome("INTERNAL", f.image, f.m)
            ELSE [out |-> IF op_ctx.blocks = 2 THEN "written" ELSE "partial",
                  file |-> "closed", removed |-> FALSE]
                 @@ Outcome("SUCCESS", f.image, f.m)))

\* main.c:107-108 and the output file name before the run
InitPipe ==
    /\ \E junk \in {0, 2} :
        image = [format |-> "UNKNOWN", width |-> junk, height |-> junk,
                 channels |-> junk, data |-> NULL]
    /\ heap = <<>>
    /\ status = "NONE"
    /\ call = NoCall
    /\ ncalls = 0
    /\ \E out \in {"absent", "old"} :
        fst = [pc |-> "load", out |-> out, file |-> "unopened",
               removed |-> FALSE, saved |-> "NONE"]
    /\ kst = Idle /\ gst = Idle /\ lst = Idle /\ mst = Idle /\ sst = Idle

\* the outcome r of call `op` becomes the state and the sequence moves to pc
PipeReturn(op, arg, r, f) ==
    /\ image' = r.image
    /\ heap' = r.m.heap
    /\ status' = r.status
    /\ call' = [op |-> op, null |-> FALSE, arg |-> arg, pre |-> image,
                preData |-> IF image.data = NULL THEN <<>> ELSE heap[image.data],
                allocs |-> r.m.allocs, frees |-> r.m.frees, bad |-> r.m.bad,
                rd |-> r.m.rd, wr |-> r.m.wr]
    /\ ncalls' = ncalls + 1
    /\ fst' = f
    /\ UNCHANGED <<kst, gst, lst, mst, sst>>

\* main.c:111-131: the load; main goes on only after SUCCESS
PipeLoad ==
    /\ fst.pc = "load"
    /\ \E file_format \in Formats, exists \in BOOLEAN, decoded \in Decodings :
        Then(ipl_load_image(1, FALSE, image, heap, file_format, exists, decoded),
        LAMBDA r :
            PipeReturn("load", file_format, r,
                       [fst EXCEPT !.pc = IF r.status = "SUCCESS" THEN "filter"
                                          ELSE "exit"]))

\* main.c:134-155: one filter
PipeFilter ==
    /\ fst.pc = "filter"
    /\ \/ \E sigma \in GaussSigmas, fail \in 0..3 :
            PipeReturn("gaussian", sigma,
                       ipl_gaussian_filter(FALSE, image, heap, sigma, fail),
                       [fst EXCEPT !.pc = "save"])
       \/ \E fail \in 0..2, junk \in JunkBytes :
            PipeReturn("sobel", 0,
                       ipl_sobel_edge_detection(FALSE, image, heap, fail, junk),
                       [fst EXCEPT !.pc = "save"])
       \/ \E radius \in MedianRadii, fail \in 0..1 :
            PipeReturn("median", radius,
                       ipl_median_filter(FALSE, image, heap, radius, fail),
                       [fst EXCEPT !.pc = "save"])
       \/ \E fail \in 0..1, junk \in JunkBytes :
            PipeReturn("grayscale", 0,
                       ipl_grayscale(FALSE, image, heap, fail, junk),
                       [fst EXCEPT !.pc = "save"])

\* ipl_save_image on the structure: main.c:159 the first time (there with
\* FILENAME_OUT and JPEG), any caller's later
PipeSave ==
    /\ fst.pc \in {"save", "after"} /\ ncalls < PipeMaxCalls
    /\ \E file_name \in {NULL, 1},
          file_format \in {"PNG", "JPEG", "UNKNOWN", "other"},
          opens \in BOOLEAN, full1 \in BOOLEAN, full2 \in BOOLEAN,
          stb_res \in {0, 1} :
        Then(ipl_save_image(file_name, FALSE, image, heap, file_format, fst.out,
                            opens, full1, full2, stb_res),
        LAMBDA r :
            PipeReturn("save", file_format, r,
                       [pc |-> "after", out |-> r.out, file |-> r.file,
                        removed |-> r.removed,
                        saved |-> IF fst.pc = "save" THEN r.status
                                  ELSE fst.saved]))

\* free_image_data on the structure after the save
PipeFree ==
    /\ fst.pc = "after" /\ ncalls < PipeMaxCalls
    /\ PipeReturn("free", 0, free_image_data(FALSE, image, Entry(heap)), fst)

NextPipe == PipeLoad \/ PipeFilter \/ PipeSave \/ PipeFree

SpecPipe == InitPipe /\ [][NextPipe]_vars

\* ipl_save_image got past its argument test
SaveStatuses ==
    {"SUCCESS", "UNSUPPORTED_FORMAT", "FILE_NOT_FOUND", "FILE_WRITE", "INTERNAL"}

\* C21: in load, one filter, save, the pixel buffer is released exactly
\* once: ipl_save_image returns INVALID_ARGUMENT and frees nothing, or it
\* returns SUCCESS, UNSUPPORTED_FORMAT, FILE_NOT_FOUND, FILE_WRITE or
\* INTERNAL, has freed the buffer data pointed to (a live block, and
\* nothing else) and set data to NULL, after which no block is live; every
\* later free_image_data or ipl_save_image on the structure returns
\* INVALID_ARGUMENT and frees nothing.
C21_SaveReleasesOnce ==
    /\ fst.pc = "save" => image.data \in DOMAIN heap
    /\ (fst.pc = "after" /\ call.op = "save" /\ call.pre.data # NULL) =>
           /\ status \in SaveStatuses \cup {"INVALID_ARGUMENT"}
           /\ status \in SaveStatuses =>
                  /\ call.frees = <<call.pre.data>> /\ ~call.bad
                  /\ image = [call.pre EXCEPT !.data = NULL]
                  /\ heap = <<>>
           /\ status = "INVALID_ARGUMENT" =>
                  call.frees = <<>> /\ image = call.pre
    /\ (fst.pc = "after" /\ call.pre.data = NULL) =>
           /\ fst.saved \in SaveStatuses \cup {"INVALID_ARGUMENT"}
           /\ status = "INVALID_ARGUMENT"
           /\ call.frees = <<>> /\ call.allocs = <<>>
           /\ image = call.pre /\ heap = <<>>
    /\ (fst.pc = "after" /\ fst.saved \in SaveStatuses /\ ncalls > 3) =>
           call.pre.data = NULL

\* a save that failed in the encoder freed the buffer a Sobel pass had
\* installed, and a free_image_data and a second save were turned away
C21_Witness ==
    /\ fst.pc = "after" /\ fst.saved = "INTERNAL" /\ ncalls = 5
    /\ call.op = "save" /\ call.arg = "JPEG" /\ status = "INVALID_ARGUMENT"
    /\ image.data = NULL /\ image.channels = 1 /\ heap = <<>>

---------------------------------------------------------------------------
(* The buffers of one filter call, under Spec.                             *)

\* how many times the last call freed address a
TimesFreed(a) == Cardinality({k \in DOMAIN call.frees : call.frees[k] = a})

\* the addresses the last call's allocations returned
AllocatedAddrs ==
    {call.allocs[k][3] : k \in DOMAIN call.allocs} \ {NULL}

\* the last call was a filter call that returned
FilterReturned ==
    call.op \in {"gaussian", "sobel", "median", "grayscale"} /\ status # "SIGSEGV"

\* C23: on every return path of every filter each buffer allocated during
\* the call has been freed exactly once or is the image's data (and then
\* live and not freed), a replaced image buffer has been freed exactly
\* once, a kept one not at all, no free hit a block that was not live, and
\* no block other than the image's data is live afterwards.
C23_FilterBuffersBalanced ==
    FilterReturned =>
        /\ ~call.bad
        /\ \A a \in AllocatedAddrs :
               IF a = image.data
               THEN TimesFreed(a) = 0 /\ a \in DOMAIN heap
               ELSE TimesFreed(a) = 1 /\ a \notin DOMAIN heap
        /\ \A k \in DOMAIN call.frees :
               call.frees[k] \in AllocatedAddrs \cup {call.pre.data}
        /\ IF image.data = call.pre.data
           THEN call.pre.data # NULL => TimesFreed(call.pre.data) = 0
           ELSE /\ TimesFreed(call.pre.data) = 1
                /\ image.data \in AllocatedAddrs
        /\ DOMAIN heap = {image.data} \ {NULL}

\* a Sobel call whose gradient map could not be allocated freed its luma
\* scratch and left the image's buffer
C23_Witness ==
    /\ call.op = "sobel" /\ status = "OUT_OF_MEMORY"
    /\ Len(call.allocs) = 2 /\ call.allocs[2][3] = NULL
    /\ call.frees = <<call.allocs[1][3]>>
    /\ image.data = call.pre.data /\ image.data \in DOMAIN heap

\* a Gaussian call that ran both passes freed its kernel and its scratch
C23_GaussianSeen ==
    /\ call.op = "gaussian" /\ status = "SUCCESS"
    /\ Len(call.allocs) = 3 /\ Len(call.frees) = 3

---------------------------------------------------------------------------
(* The sliding histogram of ipl_median_filter, under SpecMedian.           *)

\* the worker of channel c has called hist_set and the canvas is allocated
HistLive(c) == mst.pc = "filter" /\ mst.at[c] > 0

\* the row the worker of channel c is in, and the number of hist_move
\* calls it has completed in that row
HistRowAt(c) == (mst.at[c] - 1) \div (mst.width + 1)
HistMoves(c) == Min((mst.at[c] - 1) % (mst.width + 1), mst.width - 1)

\* the bins of channel c that are not zero
HistNonZero(c) == {v \in 0..255 : mst.histogram[HistRow(c)][v] # 0}

\* C24: for every channel, after hist_set and after every completed
\* hist_move every bin count is >= 0 and the counts sum to the window area
\* (2 * radius + 1)^2, so that the scan of get_median passes half at some
\* bin and does not fall through to 255.
C24_HistogramSumsToArea ==
    \A c \in DOMAIN mst.at :
        HistLive(c) =>
            LET area == (mst.radius * 2 + 1) * (mst.radius * 2 + 1)
                hist == mst.histogram[HistRow(c)]
            IN  /\ \A v \in 0..255 : hist[v] >= 0
                /\ HistSum(hist, HistNonZero(c)) = area
                /\ \E i \in HistNonZero(c) :
                       HistSum(hist, {u \in HistNonZero(c) : u <= i}) > area \div 2

\* a worker has slid a 3 x 3 window that holds several values
C24_Witness ==
    /\ mst.pc = "filter" /\ mst.radius = 1 /\ mst.width = 3
    /\ mst.at[0] = 2
    /\ mst.hpos_x[0] = 1
    /\ Cardinality(HistNonZero(0)) >= 3

\* the canvas byte of channel c at row r, column col
CanvasAt(r, col, c) ==
    mst.padded[r * (MedianWPad * mst.chan) + col * mst.chan + c + 1]

\* how many cells of the window of rows y .. y + w - 1 and columns
\* k .. k + w - 1 of the canvas hold v in channel c
CanvasWindowCount(y, k, c, v) ==
    LET w == mst.radius * 2 + 1
    IN  Cardinality({rc \in (y..(y + w - 1)) \X (k..(k + w - 1)) :
                        CanvasAt(rc[1], rc[2], c) = v})

\* C25: in every row y, after hist_set at column 0 and k calls of
\* hist_move (0 <= k <= width - 1) the histogram is bin for bin the
\* histogram of the canvas window of rows [y, y + w - 1] and columns
\* [k, k + w - 1], w = 2 * radius + 1, and the tracked origin is
\* (hx, hy) = (k, y).
C25_SlideEqualsRebuild ==
    \A c \in DOMAIN mst.at :
        HistLive(c) =>
            LET y == HistRowAt(c)
                k == HistMoves(c)
                w == mst.radius * 2 + 1
                seen == {CanvasAt(rc[1], rc[2], c) :
                            rc \in (y..(y + w - 1)) \X (k..(k + w - 1))}
            IN  /\ mst.hpos_x[c] = k /\ mst.hpos_y[c] = y
                /\ k + w - 1 <= MedianWPad - 1 /\ y + w - 1 <= MedianHPad - 1
                /\ HistNonZero(c) \subseteq seen
                /\ \A v \in seen :
                       mst.histogram[HistRow(c)][v] = CanvasWindowCount(y, k, c, v)

\* in the second row a worker has slid its 3 x 3 window twice, to the last
\* column of a 3-pixel row
C25_Witness ==
    /\ mst.pc = "filter" /\ mst.radius = 1 /\ mst.width = 3 /\ mst.height = 2
    /\ mst.at[0] = 8
    /\ mst.hpos_x[0] = 2 /\ mst.hpos_y[0] = 1
    /\ Cardinality(HistNonZero(0)) >= 3

---------------------------------------------------------------------------
(* compute_sobel_magnitude, scan iteration by scan iteration: the two      *)
(* derivative rows of iteration i go into slot i % 3 (lines 285-322), then *)
(* line 326 ends the iteration or the pixels of one output row are written *)
(* one by one (lines 336-359).  held and wrote are not in the code: held   *)
(* is the image row each slot holds (-1 none), wrote the iteration that    *)
(* last wrote each output row (-1 none).                                   *)

ScanMaxW == 3
ScanMaxH == 5

\* a grayscale buffer and an output buffer whose bytes all hold fill
\* (ipl_sobel_edge_detection passes one from calloc, fill = 0)
InitScan ==
    /\ \E width \in 1..ScanMaxW, height \in 1..ScanMaxH,
          kind \in {"step", "checker", "varied"}, fill \in JunkBytes :
        sst = [pc |-> "derive", width |-> width, height |-> height,
               input |-> CallerData(kind, 1, width, height, 1),
               fill |-> fill,
               out |-> Filled(width * height, fill),
               dx_buf |-> [s \in 1..3 |-> [j1 \in 1..width |-> Indet]],
               dy_buf |-> [s \in 1..3 |-> [j1 \in 1..width |-> Indet]],
               held |-> [s \in 0..2 |-> -1],
               wrote |-> [r \in 0..(height - 1) |-> -1],
               i |-> 0, j |-> 0]
    /\ image = Idle /\ heap = <<>> /\ status = "NONE" /\ call = NoCall
    /\ ncalls = 0 /\ kst = Idle /\ gst = Idle /\ lst = Idle /\ mst = Idle
    /\ fst = Idle

\* the slot had line 288 read i % 2
SobelSlot_of_two(i) == i % 2

\* line 288: current_buf_row, the slot the derivatives of row i go into
SobelSlot(i) == i % 3

\* line 285: i++ and the loop test
ScanAdvance(st) ==
    [st EXCEPT !.i = @ + 1, !.j = 0,
               !.pc = IF st.i + 1 < st.height THEN "derive" ELSE "done"]

\* lines 288-322: the derivatives of row i
ScanDerive ==
    /\ sst.pc = "derive"
    /\ sst' = [sst EXCEPT
            !.dx_buf[SobelSlot(sst.i) + 1] =
                SobelRowDx(sst.input, sst.i, sst.width),
            !.dy_buf[SobelSlot(sst.i) + 1] =
                SobelRowDy(sst.input, sst.i, sst.width, sst.height),
            !.held[SobelSlot(sst.i)] = sst.i,
            !.pc = "test"]
    /\ UNCHANGED <<image, heap, status, call, ncalls, kst, gst, lst, mst, fst>>

\* line 326: continue
ScanContinue ==
    /\ sst.pc = "test" /\ ~SobelEmits(sst.i)
    /\ sst' = ScanAdvance(sst)
    /\ UNCHANGED <<image, heap, status, call, ncalls, kst, gst, lst, mst, fst>>

\* lines 336-359: pixel j of the output row of iteration i
ScanEmit ==
    /\ sst.pc = "test" /\ SobelEmits(sst.i)
    /\ LET cell == SobelOutputRow(sst.i) * sst.width + sst.j + 1
           wrote1 == [sst EXCEPT
               !.out[cell] =
                   SobelEmitRow(sst.dx_buf, sst.dy_buf, sst.i, sst.width)[sst.j + 1],
               !.wrote[SobelOutputRow(sst.i)] = sst.i,
               !.j = @ + 1]
       IN  sst' = IF sst.j + 1 < sst.width THEN wrote1 ELSE ScanAdvance(wrote1)
    /\ UNCHANGED <<image, heap, status, call, ncalls, kst, gst, lst, mst, fst>>

NextScan == ScanDerive \/ ScanContinue \/ ScanEmit

SpecScan == InitScan /\ [][NextScan]_vars

\* the scan is at an emission step: pixel j of iteration i is about to be
\* written
ScanEmitting == sst.pc = "test" /\ sst.i >= 2

\* scan iteration i is over
ScanPast(i) == sst.pc # "off" /\ (sst.i > i \/ sst.pc = "done")

\* the output lags the scan by one row: every row written was written at
\* the iteration one past it, and iteration i >= 2 writes row i - 1
ScanLagsByOne ==
    sst.pc # "off" =>
        /\ \A r \in DOMAIN sst.wrote :
               sst.wrote[r] # -1 => sst.wrote[r] = r + 1
        /\ \A i \in 2..(sst.height - 1) :
               ScanPast(i) => sst.wrote[i - 1] = i

ScanOutRow(r) == [j1 \in 1..sst.width |-> sst.out[r * sst.width + j1]]

C27_ShortImageSeen ==
    /\ sst.pc = "done" /\ sst.height = 2 /\ sst.width = 2 /\ sst.fill = 170
    /\ sst.out = <<170, 170, 170, 170>>
    /\ SobelRowDx(sst.input, 0, 2) # <<0, 0>>

\* the grayscale byte at row r, column x
ScanGrey(r, x) == sst.input[r * sst.width + x + 1]

\* the raw derivatives of image row r, straight from the image: the
\* difference of the right and left neighbours and of the lower and upper
\* neighbours, indices clamped to the image
RawDx(r) ==
    [j1 \in 1..sst.width |->
        ScanGrey(r, Min(j1, sst.width - 1)) - ScanGrey(r, Max(j1 - 2, 0))]
RawDy(r) ==
    [j1 \in 1..sst.width |->
        ScanGrey(Min(r + 1, sst.height - 1), j1 - 1)
        - ScanGrey(Max(r - 1, 0), j1 - 1)]

\* slot s of both ring buffers holds the raw derivatives of image row r
SlotHolds(s, r) ==
    /\ sst.held[s] = r
    /\ sst.dx_buf[s + 1] = RawDx(r)
    /\ sst.dy_buf[s + 1] = RawDy(r)

\* C28: at every emission step of scan iteration i (i >= 2) the slots
\* (i - 2) % 3, (i - 1) % 3 and i % 3 of dx_buf and dy_buf are pairwise
\* distinct and hold the raw derivatives of image rows i - 2, i - 1 and i;
\* a slot is overwritten, by row r + 3, only after the last emission that
\* reads row r (that of iteration r + 2) is over.
C28_RingHoldsThreeRows ==
    /\ ScanEmitting =>
           /\ Cardinality({(sst.i - 2) % 3, (sst.i - 1) % 3, sst.i % 3}) = 3
           /\ SlotHolds((sst.i - 2) % 3, sst.i - 2)
           /\ SlotHolds((sst.i - 1) % 3, sst.i - 1)
           /\ SlotHolds(sst.i % 3, sst.i)
    /\ (sst.pc = "derive" /\ sst.i >= 3) =>
           /\ sst.held[sst.i % 3] = sst.i - 3
           /\ sst.wrote[sst.i - 2] = sst.i - 1

\* the third pixel of iteration 4 is about to be written: slot 1 holds row
\* 4, which replaced row 1, next to rows 2 and 3
C28_Witness ==
    /\ ScanEmitting /\ sst.i = 4 /\ sst.j = 2 /\ sst.width = 3
    /\ sst.held = (0 :> 3) @@ (1 :> 4) @@ (2 :> 2)
    /\ RawDx(4) # RawDx(1)

---------------------------------------------------------------------------
(* The three step-by-step filters side by side: a run is one call of       *)
(* ipl_median_filter, of ipl_gaussian_filter or of compute_sobel_magnitude *)
(* taken statement by statement, and before each statement the indices it  *)
(* is about to use are compared with the sizes of the buffers.             *)

\* int arithmetic (32 bits, two's complement: what the builds at hand do
\* with a signed overflow): the sum and, for b >= 0, the product
AddWrap(x, y) ==
    IF x > 0 /\ y > 2147483647 - x
    THEN (x - 2147483647 - 1) + (y - 2147483647 - 1)
    ELSE IF x < 0 /\ y < (-2147483647 - 1) - x
    THEN (x + 2147483647 + 1) + (y + 2147483647 + 1)
    ELSE x + y

RECURSIVE MulWrap(_, _)
MulWrap(a, b) ==
    IF b = 0 THEN 0
    ELSE LET h == MulWrap(a, b \div 2)
         IN  AddWrap(AddWrap(h, h), IF b % 2 = 1 THEN a ELSE 0)

\* imageproc_A.c:33-36, 44: the int handed to malloc, w_pad * h_pad * chan
MedianCanvasArg(width, height, chan, radius) ==
    MulWrap(MulWrap(width + radius * 2, height + radius * 2), chan)

\* w_pad * h_pad * chan is computed without overflow
CanvasFitsInt(width, height, chan, radius) ==
    /\ width + radius * 2 <= 2147483647 \div (height + radius * 2)
    /\ (width + radius * 2) * (height + radius * 2) <= 2147483647 \div chan

\* the radii of the calls whose canvas is sized but not walked byte by byte
CanvasRadii == {1, 11585, 16384, 18919, 23170}

\* a call of ipl_median_filter on a small image with one of CanvasRadii
InitCanvas ==
    /\ \E width \in 1..2, height \in 1..2, chan \in LoadableChannels,
          radius \in CanvasRadii :
        mst = [pc |-> "sizing", status |-> "NONE", width |-> width,
               height |-> height, chan |-> chan, radius |-> radius,
               at |-> <<>>, bytes |-> 0, worker |-> -1, index |-> -1]
    /\ image = Idle /\ heap = <<>> /\ status = "NONE" /\ call = NoCall
    /\ ncalls = 0 /\ kst = Idle /\ gst = Idle /\ lst = Idle /\ fst = Idle
    /\ sst = Idle

\* lines 24-45: malloc(w_pad * h_pad * chan); a negative int becomes a
\* size_t above 2^63, which no malloc grants
CanvasAllocate ==
    /\ mst.pc = "sizing"
    /\ LET arg == MedianCanvasArg(mst.width, mst.height, mst.chan, mst.radius)
       IN  mst' = IF arg < 0
                  THEN [mst EXCEPT !.pc = "returned", !.status = "OUT_OF_MEMORY"]
                  ELSE [mst EXCEPT !.pc = "sized", !.bytes = arg]
    /\ UNCHANGED <<image, heap, status, call, ncalls, kst, gst, lst, fst, sst>>

\* lines 47-63 on a sized canvas: worker c writes padded[i * wc_pad +
\* j * chan + c] for every row i and column j of the canvas in rising
\* order; when the block is smaller than the canvas the first index at or
\* past its end that the worker writes is `index`
CanvasPad ==
    /\ mst.pc = "sized"
    /\ IF CanvasFitsInt(mst.width, mst.height, mst.chan, mst.radius)
       THEN mst' = [mst EXCEPT !.pc = "padded"]
       ELSE \E c \in 0..(mst.chan - 1) :
               mst' = [mst EXCEPT !.pc = "overrun", !.worker = c,
                          !.index = mst.bytes + ((c - mst.bytes) % mst.chan)]
    /\ UNCHANGED <<image, heap, status, call, ncalls, kst, gst, lst, fst, sst>>

NextBounds ==
    \/ mst.pc # "off" /\ NextMedian
    \/ CanvasAllocate
    \/ CanvasPad
    \/ gst.pc # "off" /\ NextGauss
    \/ sst.pc # "off" /\ NextScan

SpecBounds ==
    (InitMedian \/ InitCanvas \/ InitGauss \/ InitScan) /\ [][NextBounds]_vars

\* n is an index of a buffer of `size` elements
Inside(n, size) == 0 <= n /\ n < size

\* imageproc_A.c:52-62: the next iteration of the padding loop of each
\* worker reads source and writes the canvas
PadAccessInside ==
    (mst.pc = "pad") =>
        \A c \in DOMAIN mst.at :
            mst.at[c] < MedianWPad * MedianHPad =>
                LET i == mst.at[c] \div MedianWPad
                    j == mst.at[c] % MedianWPad
                    i_src == clamp(i - mst.radius, 0, mst.height - 1)
                    j_src == clamp(j - mst.radius, 0, mst.width - 1)
                IN  /\ Inside(i_src, mst.height) /\ Inside(j_src, mst.width)
                    /\ Inside(i_src * (mst.width * mst.chan) + j_src * mst.chan + c,
                              Len(mst.source))
                    /\ Inside(PadIdx(i * (MedianWPad * mst.chan), j, mst.chan, c),
                              Len(mst.padded))

\* the canvas bytes of channel c in rows y .. y + w - 1 of column col lie
\* in the canvas, col being one of its columns and the rows among its rows
ColumnInside(y, col, c) ==
    /\ Inside(col, MedianWPad)
    /\ \A i_win \in 0..(mst.radius * 2) :
           /\ Inside(y + i_win, MedianHPad)
           /\ Inside((y + i_win) * (MedianWPad * mst.chan) + col * mst.chan + c,
                     Len(mst.padded))

\* imageproc_A.c:85-101: the next statement of each worker: hist_set over
\* the window at column 0, or the write of a median and, except in the last
\* column, hist_move, whose entering column is at most width + 2r - 1 and
\* is that column at the last slide of a row
FilterAccessInside ==
    (mst.pc = "filter") =>
        \A c \in DOMAIN mst.at :
            mst.at[c] < mst.height * (mst.width + 1) =>
                LET i == mst.at[c] \div (mst.width + 1)
                    q == mst.at[c] % (mst.width + 1)
                    w == mst.radius * 2 + 1
                IN  /\ Inside(HistRow(c), 4)
                    /\ IF q = 0
                       THEN \A col \in 0..(w - 1) : ColumnInside(i, col, c)
                       ELSE /\ Inside(i * (mst.width * mst.chan) + (q - 1) * mst.chan + c,
                                      Len(mst.source))
                            /\ q - 1 < mst.width - 1 =>
                                   /\ ColumnInside(mst.hpos_y[c], mst.hpos_x[c], c)
                                   /\ ColumnInside(mst.hpos_y[c],
                                                   mst.hpos_x[c] + 1 + w - 1, c)
                                   /\ q - 1 = mst.width - 2 =>
                                          mst.hpos_x[c] + 1 + w - 1
                                              = mst.width + 2 * mst.radius - 1

\* img_ops.c:96-168: the next output byte of the pass in progress: the
\* clamped neighbour column or row, the bytes read, the kernel weights and
\* the byte written
GaussAccessInside ==
    (gst.pc \in {"horizontal", "vertical"}) =>
        LET i == RowOf(gst.n, gst.width, gst.channels)
            j == ColOf(gst.n, gst.width, gst.channels)
            channel == ChanOf(gst.n, gst.channels)
        IN  /\ \A offset \in (-gst.kernel.radius)..gst.kernel.radius :
                   /\ Inside(ClampIdx(j + offset, gst.width), gst.width)
                   /\ Inside(ClampIdx(i + offset, gst.height), gst.height)
                   /\ Inside(offset + gst.kernel.radius, Len(gst.kernel.values))
            /\ \A k \in PassReads(gst.pc, gst.n) :
                   Inside(k, Len(gst.mem[gst.args.input_data]))
            /\ Inside(OutputPixelIdx(i, j, channel, gst.width, gst.channels),
                      Len(gst.mem[gst.args.output_data]))
            /\ OutputPixelIdx(i, j, channel, gst.width, gst.channels) = gst.n

\* img_ops.c:285-360: the next step of the scan: the derivatives of row i
\* read the clamped neighbours of every pixel of the row and fill a slot,
\* an emission reads three slots and the clamped neighbour columns and
\* writes one byte of the map
ScanAccessInside ==
    /\ (sst.pc = "derive") =>
           /\ Inside(sst.i, sst.height) /\ Inside(SobelSlot(sst.i), 3)
           /\ \A j \in 0..(sst.width - 1), offset \in {-1, 0, 1} :
                  /\ Inside(ClampIdx(j + offset, sst.width), sst.width)
                  /\ Inside(ClampIdx(sst.i + offset, sst.height), sst.height)
                  /\ Inside(sst.i * sst.width + ClampIdx(j + offset, sst.width),
                            Len(sst.input))
                  /\ Inside(ClampIdx(sst.i + offset, sst.height) * sst.width + j,
                            Len(sst.input))
    /\ (sst.pc = "test" /\ SobelEmits(sst.i)) =>
           /\ \A d \in 0..2 : Inside((sst.i - d) % 3, 3) /\ sst.i - d >= 0
           /\ Inside(sst.j, sst.width)
           /\ \A offset \in {-1, 0, 1} :
                  Inside(ClampIdx(sst.j + offset, sst.width), sst.width)
           /\ Inside(SobelOutputRow(sst.i) * sst.width + sst.j, Len(sst.out))

\* the accesses of the calls that are walked byte by byte are inside their
\* buffers: the window rows and columns of hist_set and hist_move lie in
\* [0, width + 2r - 1] x [0, height + 2r - 1] of the canvas, the last
\* entering column being width + 2r - 1; every clamped neighbour index
\* lies in [0, width) or [0, height); every write lands inside the output
\* buffer
SmallCallsInside ==
    /\ (mst.pc # "off" /\ mst.pc \notin {"sizing", "sized", "padded", "overrun"}) =>
           PadAccessInside /\ FilterAccessInside
    /\ gst.pc # "off" => GaussAccessInside
    /\ sst.pc # "off" => ScanAccessInside

\* the padding loop of a sized canvas stays inside the block malloc gave
CanvasAccessInside ==
    /\ mst.pc = "sized" =>
           CanvasFitsInt(mst.width, mst.height, mst.chan, mst.radius)
    /\ mst.pc # "overrun"

\* C29: for width >= 1, height >= 1, 1, 3 or 4 channels and radius >= 0,
\* every index the median filter, the two convolution passes and the Sobel
\* scan read or write lies inside its buffer: the window rows and columns
\* of hist_set and hist_move lie in [0, width + 2r - 1] x
\* [0, height + 2r - 1] of the canvas, the last entering column being
\* width + 2r - 1; every clamped neighbour index lies in [0, width) or
\* [0, height); every write lands inside the output buffer.
C29_IndicesInsideBuffers ==
    /\ SmallCallsInside
    /\ CanvasAccessInside

\* the median filter was called on a 1 x 1 image of 3 channels with radius
\* 18919: the canvas has 37839 x 37839 x 3 bytes, malloc was asked for
\* 402467, and the worker of channel 0 writes padded[402468]
CanvasOverrunSeen ==
    /\ mst.pc = "overrun" /\ mst.width = 1 /\ mst.height = 1 /\ mst.chan = 3
    /\ mst.radius = 18919 /\ mst.bytes = 402467
    /\ mst.worker = 0 /\ mst.index = 402468

\* where int holds w_pad * h_pad * chan, or the product wraps to a negative
\* int, the sized call allocates the whole canvas or returns OUT_OF_MEMORY
CanvasSoundWithoutWrap ==
    /\ (mst.pc = "sized"
        /\ CanvasFitsInt(mst.width, mst.height, mst.chan, mst.radius)) =>
           mst.bytes = (mst.width + mst.radius * 2)
                       * (mst.height + mst.radius * 2) * mst.chan
    /\ (mst.pc = "returned" /\ mst.at = <<>>) => mst.status = "OUT_OF_MEMORY"

\* a worker is about to slide its 5 x 5 window for the last time in a row
\* of three pixels: the entering column is the last column of the canvas
MedianLastSlideSeen ==
    /\ mst.pc = "filter" /\ mst.radius = 2 /\ mst.width = 3
    /\ mst.at[0] = 2 /\ mst.hpos_x[0] = 1
    /\ mst.hpos_x[0] + 1 + 4 = MedianWPad - 1

\* the vertical pass is about to read rows clamped at both edges
GaussClampedSeen ==
    /\ gst.pc = "vertical" /\ gst.height = 2 /\ gst.n > 0
    /\ gst.kernel.radius >= 2

\* the scan is about to write the last pixel of the last row it writes
ScanLastWriteSeen ==
    /\ sst.pc = "test" /\ sst.height = 5 /\ sst.i = 4
    /\ sst.j = sst.width - 1 /\ sst.width = 3

---------------------------------------------------------------------------
(* image->format across a filter call, under Spec.                         *)

\* C30: ipl_grayscale sets image->format to JPEG on success whatever it
\* was before (a PNG image becomes JPEG); ipl_gaussian_filter,
\* ipl_median_filter and ipl_sobel_edge_detection leave format as it was on
\* every return; ipl_grayscale that returns OUT_OF_MEMORY leaves it as it
\* was.
C30_OnlyGrayscaleSetsFormat ==
    FilterReturned =>
        /\ (call.op = "grayscale" /\ status = "SUCCESS") =>
               image.format = "JPEG"
        /\ (call.op = "grayscale" /\ status # "SUCCESS") =>
               status = "OUT_OF_MEMORY" /\ image.format = call.pre.format
        /\ call.op \in {"gaussian", "median", "sobel"} =>
               image.format = call.pre.format

\* ipl_grayscale succeeded on a PNG image of 3 channels, which is now JPEG
C30_Witness ==
    /\ call.op = "grayscale" /\ status = "SUCCESS"
    /\ call.pre.format = "PNG" /\ call.pre.channels = 3
    /\ image.format = "JPEG" /\ image.channels = 1

\* a Sobel call succeeded on a PNG image, which is still PNG
C30_SobelKeepsSeen ==
    /\ call.op = "sobel" /\ status = "SUCCESS"
    /\ call.pre.format = "PNG" /\ image.format = "PNG"
    /\ image.data # call.pre.data

============================================================================
